---- MODULE Spec2Model ----
(***************************************************************************)
(* A model of catapcore's snapshot engine (common/machine/snapshot.py),    *)
(* of the per-device capture and apply it fans out to                      *)
(* (common/machine/hardware.py) and of the control points these read and   *)
(* write (common/machine/pv_utils.py).                                     *)
(*                                                                         *)
(* Python values are modelled as strings: the numbers a control point      *)
(* carries are "0", "1", ...; the names of an enumeration are "OFF" and    *)
(* "ON"; None is "None".  A dict is a function; a snapshot document is a   *)
(* function from its top-level keys.                                       *)
(***************************************************************************)
EXTENDS Integers, Sequences, FiniteSets, Bags, TLC

\* ------------------------------------------------------------- bounds
\* The monitor of the statistical point delivers at most MaxSamples updates.
MaxSamples == 1
\* The clock that stamps apply() reads 1..MaxTime.
MaxTime == 1

\* ------------------------------------------------------- configuration
None == "None"
\* The numbers a control point carries.
Vals == {"0", "1"}
\* What a point that nobody writes reads on the control system.
Telemetry == "0"

\* The engine's hardware-type tag, and the tag of another hardware type.
HardwareType == "magnet"
OtherType == "screen"

\* The registry handed to the engine: a dict, iterated in insertion order.
Devices == {"D1", "D2", "D3"}
DeviceOrder == <<"D1", "D2", "D3">>

\* The control points of each device, in the order of its pv_record_map.
PVOrder(d) ==
    CASE d = "D1" -> <<"SETI">>
      [] d = "D2" -> <<"RPOWER">>
      [] d = "D3" -> <<"READI">>
      [] d = "D4" -> <<"WAVE", "GETI", "SETI", "RPOWER", "READI">>
      [] d = "D5" -> <<"SETI", "LOCK", "NAME", "RPOWER", "WAVE", "GETI",
                       "GETLOCK", "GETNAME", "GETPOWER", "GETWAVE", "READI">>
PVs(d) == {PVOrder(d)[i] : i \in 1..Len(PVOrder(d))}
Handles == {"SETI", "RPOWER", "READI"}

\* The variant of a control point.
PVType(h) ==
    CASE h = "SETI" -> "scalar"
      [] h = "RPOWER" -> "state"
      [] h = "READI" -> "statistical"
      [] h = "WAVE" -> "waveform"
      [] h = "LOCK" -> "binary"
      [] h = "NAME" -> "string"
      [] h = "GETI" -> "scalar"
      [] h = "GETLOCK" -> "binary"
      [] h = "GETNAME" -> "string"
      [] h = "GETPOWER" -> "state"
      [] h = "GETWAVE" -> "waveform"

\* PVSignal.read_only.
ReadOnly(h) ==
    h \in {"READI", "GETI", "GETLOCK", "GETNAME", "GETPOWER", "GETWAVE"}

\* Hardware._snapshot_settables and Hardware._snapshot_gettables.
SnapshotSettables(d) == PVs(d) \ {"READI"}
SnapshotGettables(d) == PVs(d) \cap {"READI"}

\* PVMap._statistics: the statistical control points of a device.
Statistics(d) == {h \in PVs(d) : PVType(h) = "statistical"}

\* StatePV.states: the enumeration, name -> integer.
States == [OFF |-> "0", ON |-> "1"]
StateNames == DOMAIN States

\* StatisticalPV.buffer_capacity, as configured for READI.
BufferCapacity == 2

\* --------------------------------------------------------- dict helpers
EmptyDict == <<>>
\* No snapshot held: Snapshot._snapshot is None.
NoSnapshot == [None |-> None]

\* An update that replaces the dict instead of adding to it: what a
\* read-modify-write of the whole dict by two threads would leave.
DictUpdateLost(d, other) == other
\* dict.update(other): the keys of other win, the others stay.
DictUpdate(d, other) == other @@ d

\* ------------------------------------------------------ control points
\* PVSignal.get with a list of expected types (scalar, state, statistical):
\* the collaborator is read twice, r1 then r2; None is what a read that timed
\* out or found no connection returns.  The result is the value returned,
\* None after a warning.
PVSignalGet(r1, r2) ==
    IF r1 = None \/ r2 = None
    THEN [value |-> None, ok |-> FALSE]
    ELSE [value |-> r2, ok |-> TRUE]

\* PVSignal.get with a single expected type (waveform, string): the
\* collaborator is read once.
PVSignalGetOnce(r) ==
    IF r = None
    THEN [value |-> None, ok |-> FALSE]
    ELSE [value |-> r, ok |-> TRUE]

\* StateMap lookup by value, states(int): the names carrying that integer.
StateOfValue(v) == {n \in StateNames : States[n] = v}

\* StatePV.get: the last-known _value survives a failed read; the result is
\* the enumeration member's name, None after a warning.
StatePVGet(last, r1, r2) ==
    LET g == PVSignalGet(r1, r2)
        v == IF g.ok THEN g.value ELSE last
        found == IF v = None THEN {} ELSE StateOfValue(v)
    IN [state |-> IF found = {} THEN None ELSE CHOOSE n \in found : TRUE,
        last |-> v,
        warned |-> (IF g.ok THEN 0 ELSE 1) + (IF found = {} THEN 1 ELSE 0)]

\* ------------------------------------------------------------- warnings
\* warnings.warn(message, category): the warnings recorded, as a bag of
\* (category, device, control point).
Warning(cat, d, h) == [category |-> cat, device |-> d, point |-> h]
RECURSIVE Warn(_, _, _)
Warn(bag, w, n) == IF n = 0 THEN bag ELSE Warn(bag (+) SetToBag({w}), w, n - 1)

\* ------------------------------------------------------------- devices
\* Hardware.is_buffering(name) for one name: whether the name is one of the
\* device's statistical control points.
HardwareIsBuffering(d, h) == h \in Statistics(d)

\* The two parallel sequences create_snapshot reads off the window.
BufferValues(buf) == [i \in 1..Len(buf) |-> buf[i][2]]
BufferTimestamps(buf) == [i \in 1..Len(buf) |-> buf[i][1]]

\* Hardware.create_snapshot, from control point i of the device on.  acc is
\* the entry built so far, the warnings recorded, the last-known value of the
\* state point and the exception that ended the capture (None: none did).
\* r1[h] and r2[h] are what the collaborator answers to the two reads of h.
RECURSIVE CreateSnapshotFrom(_, _, _, _, _, _)
CreateSnapshotFrom(d, i, acc, r1, r2, buf) ==
    IF i > Len(PVOrder(d)) \/ acc.raised # None THEN acc
    ELSE
      LET h == PVOrder(d)[i]
          sg == StatePVGet(acc.last, r1[h], r2[h])
          pg == IF PVType(h) \in {"waveform", "string"}
                THEN PVSignalGetOnce(r1[h])
                ELSE PVSignalGet(r1[h], r2[h])
          isState == PVType(h) = "state"
          nwarn == IF isState THEN sg.warned ELSE (IF pg.ok THEN 0 ELSE 1)
          warned == Warn(acc.warnings,
                         Warning("FailedEPICSOperationWarning", d, h), nwarn)
          value == IF isState THEN sg.state ELSE pg.value
          last == IF isState THEN sg.last ELSE acc.last
          plain == [value |-> value]
          buffered == [value |-> value,
                       buffer |-> BufferValues(buf),
                       timestamps |-> BufferTimestamps(buf)]
          next ==
            IF h \notin SnapshotGettables(d) \cup SnapshotSettables(d)
            THEN acc
            ELSE IF isState /\ sg.state = None
            THEN \* pv.get().name on None
                 [acc EXCEPT !.warnings = warned, !.last = last,
                             !.raised = "AttributeError"]
            ELSE IF HardwareIsBuffering(d, h) /\ buf = <<>>
            THEN \* array([])[::, 1]
                 [acc EXCEPT !.warnings = warned, !.last = last,
                             !.raised = "IndexError"]
            ELSE [acc EXCEPT !.warnings = warned, !.last = last,
                             !.entry = (h :> (IF HardwareIsBuffering(d, h)
                                              THEN buffered ELSE plain)) @@ @]
      IN CreateSnapshotFrom(d, i + 1, next, r1, r2, buf)

\* Hardware.create_snapshot, the loop over the additional information.
\* `handle in snapshot` looks the key up in {self.name: {...}}: the key that
\* is the device's name warns, every other key is written into the device's
\* entry; a key that names a statistical point gets the window too.
InformationWarned(d, info) == DOMAIN info \cap {d}
InformationAdded(d, info) == DOMAIN info \ {d}
InformationRaises(d, info, buf) ==
    \E k \in InformationAdded(d, info) : HardwareIsBuffering(d, k) /\ buf = <<>>
InformationEntry(d, info, buf) ==
    [k \in InformationAdded(d, info) |->
        IF HardwareIsBuffering(d, k)
        THEN [value |-> info[k],
              buffer |-> BufferValues(buf),
              timestamps |-> BufferTimestamps(buf)]
        ELSE [value |-> info[k]]]
RECURSIVE WarnEach(_, _, _, _)
WarnEach(bag, cat, d, keys) ==
    IF keys = {} THEN bag
    ELSE LET k == CHOOSE k \in keys : TRUE
         IN WarnEach(Warn(bag, Warning(cat, d, k), 1), cat, d, keys \ {k})

\* Hardware.create_snapshot: the dict {name: entry} it returns, or the
\* exception it raises, with the warnings recorded on the way.
CreateSnapshot(d, warnings, last, r1, r2, buf, info) ==
    LET acc == CreateSnapshotFrom(d, 1,
                   [entry |-> EmptyDict, warnings |-> warnings,
                    last |-> last, raised |-> None], r1, r2, buf)
    IN IF acc.raised # None
       THEN [snapshot |-> (d :> acc.entry), warnings |-> acc.warnings,
             last |-> acc.last, raised |-> acc.raised]
       ELSE [snapshot |-> (d :> DictUpdate(acc.entry,
                                           InformationEntry(d, info, buf))),
             warnings |-> WarnEach(acc.warnings, "InvalidSnapshotSetting", d,
                                   InformationWarned(d, info)),
             last |-> acc.last,
             raised |-> IF InformationRaises(d, info, buf)
                        THEN "IndexError" ELSE None]

\* The values a caller hands to put, by their Python type.  A bool is an
\* int to isinstance; the names of the enumeration are strings.
Ints == {"0", "1", "2"}
NaN == "nan"
Floats == {"1.5", NaN}
Bools == {"True", "False"}
Strs == StateNames \cup {"abc"}
Lists == {"[0]", "[1, 2]"}
IsInt(value) == value \in Ints \cup Bools
IsFloat(value) == value \in Floats
IsBool(value) == value \in Bools
IsStr(value) == value \in Strs
IsList(value) == value \in Lists
\* int(value) of a bool or an int.
IntOf(value) ==
    CASE value = "True" -> "1"
      [] value = "False" -> "0"
      [] OTHER -> value
\* `value in [0, 1]`: True equals 1 and False equals 0.
InZeroOne(value) == IntOf(value) \in {"0", "1"}

\* What a put comes to: the value forwarded to the collaborator (None:
\* nothing was forwarded), the warnings emitted and the exception raised.
Forwarded(value) == [forwarded |-> value, warned |-> 0, raised |-> None]
Rejected == [forwarded |-> None, warned |-> 1, raised |-> None]
Raises(exc) == [forwarded |-> None, warned |-> 0, raised |-> exc]

\* A put that forwards the write whatever read_only says.
PVSignalPutAlways(h, value) == Forwarded(value)
\* PVSignal.put: a read-only point warns and forwards nothing.
PVSignalPut(h, value) ==
    IF ~ReadOnly(h) THEN Forwarded(value) ELSE Rejected

\* ScalarPV.put (StatisticalPV inherits it): a value that is neither float
\* nor int warns.
ScalarPVPut(h, value) ==
    IF ~(IsFloat(value) \/ IsInt(value)) THEN Rejected
    ELSE PVSignalPut(h, value)

\* StringPV.put: a value that is no str warns.
StringPVPut(h, value) ==
    IF ~IsStr(value) THEN Rejected ELSE PVSignalPut(h, value)

\* BinaryPV.put: a bool, 0 or 1 is forwarded as int(value).
BinaryPVPut(h, value) ==
    IF ~(IsBool(value) \/ InZeroOne(value)) THEN Rejected
    ELSE PVSignalPut(h, IntOf(value))

\* A StatePV.put that forwards the name it was given.
StatePVPutName(h, value) ==
    IF value \in StateNames THEN PVSignalPut(h, value) ELSE Rejected
\* StatePV.put: a name is looked up in the enumeration, an integer must be
\* the value of a member; what is forwarded is the member's integer.
StatePVPut(h, value) ==
    IF value \in StateNames
    THEN PVSignalPut(h, States[value])
    ELSE IF value \in Vals /\ StateOfValue(value) # {}
    THEN PVSignalPut(h, value)
    ELSE Rejected

\* WaveformPV.put: `raise ValueError` for a value that is neither list nor
\* array, outside any try.
WaveformPVPut(h, value) ==
    IF ~IsList(value) THEN Raises("ValueError") ELSE PVSignalPut(h, value)

\* pv.put(value), by the variant of the point.
PVPut(h, value) ==
    CASE PVType(h) = "state" -> StatePVPut(h, value)
      [] PVType(h) = "binary" -> BinaryPVPut(h, value)
      [] PVType(h) = "string" -> StringPVPut(h, value)
      [] PVType(h) = "waveform" -> WaveformPVPut(h, value)
      [] OTHER -> ScalarPVPut(h, value)

\* A put issued to a point: the point, the value passed and the value the
\* point forwarded to the collaborator (None: it forwarded no write).
PutCall(d, h, value, forwarded) ==
    [device |-> d, point |-> h, value |-> value, forwarded |-> forwarded]

\* An apply_snapshot that puts to every point the entry lists.
InSettablesAny(d, h, snapshot) == h \in DOMAIN snapshot
\* apply_snapshot, `if handle in self._snapshot_settables:` for a handle of
\* the entry.
InSettables(d, h, snapshot) ==
    h \in DOMAIN snapshot /\ h \in SnapshotSettables(d)

\* Hardware.apply_snapshot, from control point i of the device on.  acc is
\* the remote values of the device, the warnings recorded, the puts issued
\* and the exception that ended the loop (None: none did).  delivered[h]
\* tells whether the collaborator completes a write to h (a write that
\* times out changes nothing and, over CA, says nothing).
RECURSIVE ApplySnapshotFrom(_, _, _, _, _)
ApplySnapshotFrom(d, i, acc, snapshot, delivered) ==
    IF i > Len(PVOrder(d)) \/ acc.raised # None THEN acc
    ELSE
      LET h == PVOrder(d)[i]
          value == snapshot[h].value
          p == PVPut(h, value)
          next ==
            IF InSettables(d, h, snapshot)
            THEN [remote |-> IF p.forwarded # None /\ delivered[h]
                             THEN [acc.remote EXCEPT ![h] = p.forwarded]
                             ELSE acc.remote,
                  warnings |-> Warn(acc.warnings,
                      Warning("FailedEPICSOperationWarning", d, h), p.warned),
                  puts |-> acc.puts \cup
                      {PutCall(d, h, value, p.forwarded)},
                  raised |-> p.raised]
            ELSE acc
      IN ApplySnapshotFrom(d, i + 1, next, snapshot, delivered)

\* Hardware.apply_snapshot(snapshot).
ApplySnapshot(d, remote, warnings, puts, snapshot, delivered) ==
    ApplySnapshotFrom(d, 1,
        [remote |-> remote, warnings |-> warnings, puts |-> puts,
         raised |-> None],
        snapshot, delivered)

\* ------------------------------------------------------ snapshot engine
\* A document with the given inner dict under the given top-level key.
Document(tag, inner) == (tag :> inner)

\* Snapshot.set: the exception the call raises (None: it returns).  The
\* message of InvalidSnapshotSetting is built from snapshot.keys()[0], and
\* subscripting a dict view raises TypeError before the raise statement runs.
SetRaises(doc) ==
    IF HardwareType \notin DOMAIN doc THEN "TypeError" ELSE None

\* What Python takes for false among the documents: {} and None.
Falsy(doc) == doc = EmptyDict \/ doc = NoSnapshot

\* Snapshot._is_snapshot_correct_type: `snapshot and tag in snapshot`.
IsSnapshotCorrectType(doc) == ~Falsy(doc) /\ HardwareType \in DOMAIN doc

\* Python's `!=` between two values: a float that is not a number differs
\* from every value, itself included.
NotEqual(x, y) == x # y \/ x = NaN

\* Snapshot._find_diff: whether the comprehension raises KeyError (a point of
\* d1 that d2 lacks), and the dict it builds.
FindDiffRaises(d1, d2) == \E k \in DOMAIN d1 : k \notin DOMAIN d2
FindDiff(d1, d2) ==
    [k \in {k \in DOMAIN d1 : NotEqual(d1[k].value, d2[k].value)} |->
        [current |-> d1[k].value, diff |-> d2[k].value]]

\* Snapshot.diff: the exception raised (None: none) and the dict returned.
Diff(first, second) ==
    IF Falsy(first) \/ Falsy(second)
    THEN [raised |-> "ValueError", value |-> EmptyDict]
    ELSE IF ~(IsSnapshotCorrectType(first) /\ IsSnapshotCorrectType(second))
    THEN \* first_snapshot.keys()[0] in the message of InvalidSnapshotSetting
         [raised |-> "TypeError", value |-> EmptyDict]
    ELSE
      LET s1 == first[HardwareType]
          s2 == second[HardwareType]
          both == {n \in DOMAIN s1 : n \in DOMAIN s2}
          reported == {n \in DOMAIN s1 :
                          n \notin both \/ FindDiff(s1[n], s2[n]) # EmptyDict}
      IN IF \E n \in both : FindDiffRaises(s1[n], s2[n])
         THEN [raised |-> "KeyError", value |-> EmptyDict]
         ELSE [raised |-> None,
               value |-> [n \in reported |->
                            IF n \in both THEN FindDiff(s1[n], s2[n])
                            ELSE s1[n]]]

\* A filename is its root and its extension, as path.splitext splits it: the
\* extension keeps its dot.
Filename(root, ext) == [root |-> root, ext |-> ext]
\* The location save() and _load_file() resolve a filename to, inside the
\* engine's directory: `extension in ["yaml", "yml"]` compares against
\* extensions without the dot.
Location(filename) ==
    IF filename.ext \in {"yaml", "yml"}
    THEN filename
    ELSE Filename(filename.root, ".yaml")

\* A call that returns nothing.
NoResult == [None |-> "NoResult"]
\* No file at a location.
NoFile == [None |-> "NoFile"]
\* What save() adds to the document it writes.
SaveFields(comment) == [comment |-> comment, created |-> "now"]

\* What WaveformPV.get returns for the waveform [0]: a numpy array.
NdArray == "array([0])"
\* YAML(typ="rt").dump: the round-trip representer writes the plain Python
\* values; an object of any other class, an array among them, has no
\* representer.
Represents(value) == value # NdArray
\* yaml.dump(output, file): whether the dump raises.
DumpRaises(output) ==
    \E t \in DOMAIN output \ DOMAIN SaveFields("") :
        \E d \in DOMAIN output[t] : \E h \in DOMAIN output[t][d] :
            ~Represents(output[t][d][h].value)
\* What yaml.load returns for a file that open(location, "w") has emptied
\* and nothing was written to: None.
EmptyFile == NoSnapshot

\* --------------------------------------------------------------- inputs
\* A well-formed entry of device d: every point at the value numbered v.
EntryOf(d, v) ==
    [h \in PVs(d) |->
        [value |-> IF PVType(h) = "state"
                   THEN CHOOSE n \in StateNames : States[n] = v
                   ELSE v]]
\* Inner dicts: any set of devices, every point at 1.
InnerDocs == {[d \in S |-> EntryOf(d, "1")] : S \in SUBSET Devices}
\* The documents handed to set() and diff(): of the engine's type, of another
\* type, of both types at once, and the empty dict.
InputDocs ==
    {Document(HardwareType, inner) : inner \in InnerDocs}
    \cup {Document(OtherType, [d \in {"D1"} |-> EntryOf(d, "0")]),
          Document(HardwareType, [d \in {"D1"} |-> EntryOf(d, "0")])
            @@ Document(OtherType, [d \in {"D1"} |-> EntryOf(d, "1")]),
          EmptyDict}
\* The filenames handed to save() and load(); the last is the empty name.
Filenames == {Filename("snap1", ""), Filename("snap1", ".yaml"),
              Filename("snap1", ".yml"), Filename("snap2", ""),
              Filename("", "")}
Locations == {Location(f) : f \in Filenames \ {Filename("", "")}}
\* The exclude lists handed to apply().
Excludes == {{}, {"D2"}, {"D1", "D3"}, Devices}

\* ---------------------------------------------------------------- state
VARIABLES
    remote,        \* the control system: remote[d][h], the value of a writable point
    last_value,    \* PVSignal._value of the state point of each device
    buffer,        \* StatisticalPV._buffer of each device: <<timestamp, value>>
    samples,       \* the updates the monitor has delivered so far
    snapshot,      \* Snapshot._snapshot
    applied,       \* Snapshot._applied
    last_applied,  \* Snapshot._last_applied (0: None)
    storage,       \* the files of the engine's directory, by location
    pc,            \* where the engine's caller is: "idle", "update", "apply"
    op,            \* the call in progress, or the last one
    exclude,       \* apply()'s exclude
    idx,           \* the next device of the loop that starts the threads
    threads,       \* the thread of each device: none, started, captured, done, failed
    captured,      \* what create_snapshot returned to the thread of each device
    merged,        \* update()'s local snapshot[self._hardware_type]
    warnings,      \* the warnings recorded since the call began
    puts,          \* the puts issued since the call began
    raised,        \* the exception the call raised (None: it returned)
    result         \* what the call returned

\* One statistical control point, seen on its own: the READI of device D3.
VARIABLES
    pv_buffer,       \* StatisticalPV._buffer: a deque, its items and its maxlen
    buffer_size,     \* StatisticalPV._buffer_size
    buffer_capacity, \* StatisticalPV.buffer_capacity, as configured
    callback_index,  \* StatisticalPV._callback_index (<<>>: None)
    is_buffering,    \* StatisticalPV._is_buffering
    callbacks,       \* the collaborator's subscriptions: TRUE while open
    stats,           \* StatisticalPV._min, _max, _mean, _stdev, _median, _mode
    received,        \* every value update_stats was called with, in order
    undisturbed,     \* no resize and no clear since the point was created
    point            \* the point name the last statistics call was given

\* One device, seen on its own.
VARIABLES
    additional,      \* Hardware._additional_snapshot_information, by device
    entry            \* the entry the last apply_snapshot was given

\* The registry of a factory.
VARIABLES
    names            \* what the last get_hardware was given

deviceVars == <<additional, entry>>
factoryVars == <<names>>
statVars == <<pv_buffer, buffer_size, buffer_capacity, callback_index,
              is_buffering, callbacks, stats, received, undisturbed, point>>
vars == <<remote, last_value, buffer, samples, snapshot, applied, last_applied,
          storage, pc, op, exclude, idx, threads, captured, merged, warnings,
          puts, raised, result, statVars, deviceVars, factoryVars>>
envVars == <<remote, last_value, buffer, samples, statVars, deviceVars,
            factoryVars>>
engineVars == <<snapshot, applied, last_applied, storage>>
callVars == <<exclude, idx, threads, captured, merged>>

Writable(d) == {h \in PVs(d) : ~ReadOnly(h)}

\* The engine's directory when the engine is constructed: it holds the file
\* that an earlier save("snap1") of a one-device document wrote.
StoredAtStart ==
    [l \in Locations |->
        IF l = Location(Filename("snap1", ""))
        THEN DictUpdate(
                 Document(HardwareType, [d \in {"D1"} |-> EntryOf(d, "1")]),
                 SaveFields("note"))
        ELSE NoFile]

\* get_hardware has not been called.
NoNames == [None |-> None]
NoThreads == [d \in Devices |-> "none"]
NothingCaptured == [d \in Devices |-> EmptyDict]

\* An append that refuses the new sample when the window is full.
DequeAppendKeepsOldest(buf, n, x) ==
    IF Len(buf) < n THEN Append(buf, x) ELSE buf
\* deque(maxlen=n).append: the oldest sample goes when the window is full.
DequeAppend(buf, n, x) ==
    IF Len(buf) < n THEN Append(buf, x) ELSE Append(Tail(buf), x)

\* --------------------------------------------------- statistical point
\* The monitor delivers at most MaxUpdates values, a window is configured
\* or resized to 1..MaxCapacity, and the collaborator is asked for at most
\* MaxSubscriptions subscriptions.
MaxUpdates == 4
MaxCapacity == 3
MaxSubscriptions == 2
\* The values the monitor delivers.
Readings == {-2, 0}
\* The names a statistics call of the device is given: its statistical
\* point, and a name it has no statistical point for.
PointNames == {"READI", "NOPE"}
StatDevice == "D3"

Abs(x) == IF x < 0 THEN -x ELSE x
Min(a, b) == IF a < b THEN a ELSE b
\* The extremes a point keeps: a delivered value, or what __init__ put
\* there, sys.float_info.max in _min and sys.float_info.min in _max.
Num(v) == [num |-> v]
FloatInfoMax == [float_info |-> "max"]
FloatInfoMin == [float_info |-> "min"]
\* abs(value) > abs(self._max) and abs(value) < abs(self._min), for an
\* integer value: float_info.min is the smallest positive normal float and
\* float_info.max the largest float.
AbsGreater(value, m) ==
    IF m = FloatInfoMin THEN value # 0
    ELSE IF m = FloatInfoMax THEN FALSE
    ELSE Abs(value) > Abs(m.num)
AbsLess(value, m) ==
    IF m = FloatInfoMax THEN TRUE
    ELSE IF m = FloatInfoMin THEN value = 0
    ELSE Abs(value) < Abs(m.num)

\* The last n items of a sequence.
LastN(s, n) == SubSeq(s, Len(s) - Min(Len(s), n) + 1, Len(s))
\* A deque that keeps the first items of the iterable, not the last.
DequeKeepsOldest(items, maxlen) ==
    [items |-> SubSeq(items, 1, Min(Len(items), maxlen)), maxlen |-> maxlen]
\* deque(iterable, maxlen): the last maxlen items of the iterable.
Deque(items, maxlen) == [items |-> LastN(items, maxlen), maxlen |-> maxlen]

\* An aggregate that was never computed: None.
Unset == [unset |-> TRUE]
Fraction(n, d) == [num |-> n, den |-> d]
RECURSIVE Sum(_)
Sum(s) == IF s = <<>> THEN 0 ELSE Head(s) + Sum(Tail(s))
RECURSIVE SumSq(_)
SumSq(s) == IF s = <<>> THEN 0 ELSE Head(s) * Head(s) + SumSq(Tail(s))
RECURSIVE Insert(_, _)
Insert(x, s) ==
    IF s = <<>> THEN <<x>>
    ELSE IF x <= Head(s) THEN <<x>> \o s
    ELSE <<Head(s)>> \o Insert(x, Tail(s))
RECURSIVE Sorted(_)
Sorted(s) == IF s = <<>> THEN <<>> ELSE Insert(Head(s), Sorted(Tail(s)))
Count(s, x) == Cardinality({i \in 1..Len(s) : s[i] = x})

\* statistics.mean: the sum over the count.
Mean(values) == Fraction(Sum(values), Len(values))
\* statistics.stdev(values, xbar=mean): the square root of the sample
\* variance, kept as that variance, (n * sum(x^2) - sum(x)^2) / (n * (n - 1)).
Stdev(values) ==
    [sqrt |-> Fraction(Len(values) * SumSq(values) - Sum(values) * Sum(values),
                       Len(values) * (Len(values) - 1))]
\* statistics.median: the middle of the sorted values, or the mean of the
\* two in the middle.
Median(values) ==
    LET s == Sorted(values)
        n == Len(values)
    IN IF n % 2 = 1
       THEN Fraction(s[(n + 1) \div 2], 1)
       ELSE Fraction(s[n \div 2] + s[n \div 2 + 1], 2)
\* statistics.mode: the most common value, the first met among equals.
Mode(values) ==
    Num(values[CHOOSE i \in 1..Len(values) :
                 /\ \A j \in 1..Len(values) :
                        Count(values, values[j]) <= Count(values, values[i])
                 /\ \A j \in 1..(i - 1) :
                        Count(values, values[j]) < Count(values, values[i])])

\* The values of a window, oldest first.
WindowValues(items) == [i \in 1..Len(items) |-> items[i][2]]
\* update_stats recomputes over the window before the new sample joined it.
AggregatesStale(old, items) ==
    IF Len(items) <= 2 THEN old ELSE
    [mean |-> Mean(WindowValues(SubSeq(items, 1, Len(items) - 1))),
     stdev |-> Stdev(WindowValues(SubSeq(items, 1, Len(items) - 1))),
     median |-> Median(WindowValues(SubSeq(items, 1, Len(items) - 1))),
     mode |-> Mode(WindowValues(SubSeq(items, 1, Len(items) - 1)))]
    @@ old
\* update_stats, `if len(self._buffer) > 2:`: the four aggregates over the
\* window as it is now; otherwise they stay.
Aggregates(old, items) ==
    IF Len(items) > 2
    THEN [mean |-> Mean(WindowValues(items)),
          stdev |-> Stdev(WindowValues(items)),
          median |-> Median(WindowValues(items)),
          mode |-> Mode(WindowValues(items))] @@ old
    ELSE old

\* StatisticalPV.update_stats(value, timestamp) on the state p of the point
\* (its deque, its statistics, the values it was called with).
StatisticalPVUpdateStats(p, value, timestamp) ==
    LET items == DequeAppend(p.buffer.items, p.buffer.maxlen,
                             <<timestamp, value>>)
        max == IF AbsGreater(value, p.stats.max) THEN Num(value) ELSE p.stats.max
        min == IF AbsLess(value, p.stats.min) THEN Num(value) ELSE p.stats.min
    IN [buffer |-> [p.buffer EXCEPT !.items = items],
        stats |-> Aggregates([p.stats EXCEPT !.max = max, !.min = min], items),
        received |-> Append(p.received, value)]

\* StatisticalPV.is_buffer_full: len(self._buffer) == self._buffer.maxlen.
IsBufferFullAsConfigured(b) == Len(b.items) = buffer_capacity
IsBufferFull(b) == Len(b.items) = b.maxlen

\* StatisticalPV.__init__ with buffer_size n and auto_buffer auto.
StatisticalPVInit(n, auto) ==
    /\ pv_buffer = Deque(<<>>, n)
    /\ buffer_size = n
    /\ buffer_capacity = n
    /\ stats = [min |-> FloatInfoMax, max |-> FloatInfoMin, mean |-> Unset,
                stdev |-> Unset, median |-> Unset, mode |-> Unset]
    /\ callback_index = IF auto THEN <<0>> ELSE <<>>
    /\ callbacks = IF auto THEN <<TRUE>> ELSE <<>>
    /\ is_buffering = auto
    /\ received = <<>>
    /\ undisturbed = TRUE
    /\ point = None

\* The engine at construction, with no call in progress.
EngineQuiet ==
    /\ buffer = [d \in Devices |-> <<>>]
    /\ entry = EmptyDict
    /\ names = NoNames
    /\ samples = 0
    /\ snapshot = NoSnapshot
    /\ applied = FALSE
    /\ last_applied = 0
    /\ storage = StoredAtStart
    /\ pc = "idle"
    /\ op = "none"
    /\ exclude = {}
    /\ idx = 1
    /\ threads = NoThreads
    /\ captured = NothingCaptured
    /\ merged = EmptyDict
    /\ warnings = EmptyBag
    /\ puts = {}
    /\ raised = None
    /\ result = NoResult

\* What a point reads on the control system before anybody writes it.
InitialValue(h) ==
    CASE PVType(h) = "waveform" -> "[0]"
      [] PVType(h) = "string" -> "abc"
      [] OTHER -> "0"
\* The engine and the control system around it at construction.
EngineInit ==
    /\ remote = [d \in Devices |-> [h \in Writable(d) |-> InitialValue(h)]]
    /\ last_value = [d \in Devices |-> None]
    /\ additional = [d \in Devices |-> EmptyDict]
    /\ EngineQuiet

Init == EngineInit /\ StatisticalPVInit(BufferCapacity, TRUE)

\* A call begins, with nothing recorded yet.
Begin(name) ==
    /\ pc = "idle"
    /\ op' = name

\* The caller has looked at what the call left behind and moves on.
Return ==
    /\ pc = "returned"
    /\ pc' = "idle"
    /\ op' = "none"
    /\ exclude' = {}
    /\ idx' = 1
    /\ threads' = NoThreads
    /\ captured' = NothingCaptured
    /\ merged' = EmptyDict
    /\ warnings' = EmptyBag
    /\ puts' = {}
    /\ raised' = None
    /\ result' = NoResult
    /\ UNCHANGED <<envVars, engineVars>>

\* ---------------------------------------------------------- environment
\* Somebody else changes a writable point on the control system.
ExternalChange(d, h, v) ==
    /\ pc = "idle"
    /\ remote[d][h] # v
    /\ remote' = [remote EXCEPT ![d][h] = v]
    /\ UNCHANGED <<last_value, buffer, samples, statVars, deviceVars, factoryVars, engineVars, pc, op,
                   callVars, warnings, puts, raised, result>>

\* StatisticalPV.update_stats, called by the monitor of a buffering point:
\* the sample joins the window with its timestamp.
UpdateStats(d, v) ==
    /\ pc = "idle"
    /\ samples < MaxSamples
    /\ Statistics(d) # {}
    /\ samples' = samples + 1
    /\ buffer' = [buffer EXCEPT
                    ![d] = DequeAppend(@, BufferCapacity, <<samples + 1, v>>)]
    /\ UNCHANGED <<remote, last_value, statVars, deviceVars, factoryVars, engineVars, pc, op, callVars,
                   warnings, puts, raised, result>>

\* --------------------------------------------------------------- update
\* A join that returns only for a thread that ended without an exception.
EndedDone(t) == t = "done"
\* thread.join() over the threads started: every one of them has ended.
Ended(t) == t \in {"done", "failed"}
\* The same loop with no join in it.
JoinedNone(started) == TRUE
Joined(started) == \A d \in started : Ended(threads[d])
Started == {d \in Devices : threads[d] # "none"}

\* update() is called: snapshot = {tag: {}}.
UpdateCall ==
    /\ Begin("update")
    /\ pc' = "update"
    /\ UNCHANGED <<envVars, engineVars, callVars, warnings, puts, raised,
                   result>>

\* The loop of update() starts the thread of the next device.
UpdateStart ==
    /\ pc = "update"
    /\ idx <= Len(DeviceOrder)
    /\ threads' = [threads EXCEPT ![DeviceOrder[idx]] = "started"]
    /\ idx' = idx + 1
    /\ UNCHANGED <<envVars, engineVars, pc, op, exclude, captured, merged,
                   warnings, puts, raised, result>>

\* What the collaborator answers to a read of point h of device d: the
\* remote value, or None.
Answers(d, h) ==
    {IF h \in Writable(d) THEN remote[d][h] ELSE Telemetry, None}

\* An exception leaves create_snapshot called in update() itself, as in the
\* branch for a single Hardware: it leaves update() too.
CallRaised(d, exc) ==
    /\ threads' = [threads EXCEPT ![d] = "failed"]
    /\ raised' = exc
    /\ pc' = "returned"
\* An exception leaves the target of the thread of device d: the thread ends
\* and the exception goes no further; update(), in its own thread, goes on.
ThreadRaised(d, exc) ==
    /\ threads' = [threads EXCEPT ![d] = "failed"]
    /\ UNCHANGED <<raised, pc>>

\* Snapshot._update, first half: the thread evaluates
\* hardware.create_snapshot(); an exception ends the thread.
UpdateCapture(d) ==
    /\ pc = "update"
    /\ threads[d] = "started"
    /\ \E r1, r2 \in [PVs(d) -> Vals \cup {None}] :
         /\ \A h \in PVs(d) : r1[h] \in Answers(d, h) /\ r2[h] \in Answers(d, h)
         /\ LET c == CreateSnapshot(d, warnings, last_value[d], r1, r2,
                                  buffer[d], additional[d])
            IN /\ warnings' = c.warnings
               /\ last_value' = [last_value EXCEPT ![d] = c.last]
               /\ IF c.raised # None
                  THEN /\ ThreadRaised(d, c.raised)
                       /\ UNCHANGED captured
                  ELSE /\ threads' = [threads EXCEPT ![d] = "captured"]
                       /\ captured' = [captured EXCEPT ![d] = c.snapshot]
                       /\ UNCHANGED <<raised, pc>>
    /\ UNCHANGED <<remote, buffer, samples, statVars, deviceVars, factoryVars, engineVars, op, exclude,
                   idx, merged, puts, result>>

\* Snapshot._update, second half: snapshot[tag].update(...) with what
\* create_snapshot returned.
UpdateMerge(d) ==
    /\ pc = "update"
    /\ threads[d] = "captured"
    /\ merged' = DictUpdate(merged, captured[d])
    /\ threads' = [threads EXCEPT ![d] = "done"]
    /\ UNCHANGED <<envVars, engineVars, pc, op, exclude, idx, captured,
                   warnings, puts, raised, result>>

\* A set() that stores the document and leaves _applied as it was.
SetAcceptedKeepsApplied(doc) ==
    /\ snapshot' = doc
    /\ UNCHANGED applied
\* Snapshot.set, on a document it accepts.
SetAccepted(doc) ==
    /\ snapshot' = doc
    /\ applied' = FALSE

\* update() joins its threads and sets the merged document.
UpdateJoin ==
    /\ pc = "update"
    /\ idx > Len(DeviceOrder)
    /\ Joined(Started)
    /\ SetAccepted(Document(HardwareType, merged))
    /\ pc' = "returned"
    /\ UNCHANGED <<envVars, last_applied, storage, op, callVars, warnings,
                   puts, raised, result>>

\* ---------------------------------------------------------------- apply
\* apply(exclude) is called.
ApplyCall(E) ==
    /\ Begin("apply")
    /\ pc' = "apply"
    /\ exclude' = E
    /\ UNCHANGED <<envVars, engineVars, idx, threads, captured, merged,
                   warnings, puts, raised, result>>

\* A loop that ignores exclude.
IsExcludedNever(name, E) == FALSE
\* `name not in exclude`, negated.
IsExcluded(name, E) == name \in E

\* The loop of apply() passes over an excluded device.
ApplySkip ==
    /\ pc = "apply"
    /\ idx <= Len(DeviceOrder)
    /\ IsExcluded(DeviceOrder[idx], exclude)
    /\ idx' = idx + 1
    /\ UNCHANGED <<envVars, engineVars, pc, op, exclude, threads, captured,
                   merged, warnings, puts, raised, result>>

\* The loop of apply() reaches a device it targets while no document is
\* held: subscripting None raises TypeError, which apply() does not catch.
ApplyNoSnapshot ==
    /\ pc = "apply"
    /\ idx <= Len(DeviceOrder)
    /\ ~IsExcluded(DeviceOrder[idx], exclude)
    /\ snapshot = NoSnapshot
    /\ raised' = "TypeError"
    /\ pc' = "returned"
    /\ UNCHANGED <<envVars, engineVars, op, callVars, warnings, puts, result>>

\* The loop of apply() finds the device in the document and starts its thread.
ApplyStart ==
    /\ pc = "apply"
    /\ idx <= Len(DeviceOrder)
    /\ ~IsExcluded(DeviceOrder[idx], exclude)
    /\ snapshot # NoSnapshot
    /\ DeviceOrder[idx] \in DOMAIN snapshot[HardwareType]
    /\ threads' = [threads EXCEPT ![DeviceOrder[idx]] = "started"]
    /\ idx' = idx + 1
    /\ UNCHANGED <<envVars, engineVars, pc, op, exclude, captured, merged,
                   warnings, puts, raised, result>>

\* The same place of the loop without the except clause: the KeyError leaves
\* apply().
ApplyMissingRaises ==
    /\ pc = "apply"
    /\ idx <= Len(DeviceOrder)
    /\ ~IsExcluded(DeviceOrder[idx], exclude)
    /\ snapshot # NoSnapshot
    /\ DeviceOrder[idx] \notin DOMAIN snapshot[HardwareType]
    /\ raised' = "KeyError"
    /\ pc' = "returned"
    /\ UNCHANGED <<envVars, engineVars, op, callVars, warnings, puts, result>>

\* The loop of apply() does not find the device in the document: KeyError,
\* caught: _applied = False and a warning.
ApplyMissing ==
    /\ pc = "apply"
    /\ idx <= Len(DeviceOrder)
    /\ ~IsExcluded(DeviceOrder[idx], exclude)
    /\ snapshot # NoSnapshot
    /\ DeviceOrder[idx] \notin DOMAIN snapshot[HardwareType]
    /\ applied' = FALSE
    /\ warnings' = Warn(warnings,
           Warning("InvalidSnapshotSetting", DeviceOrder[idx], None), 1)
    /\ idx' = idx + 1
    /\ UNCHANGED <<envVars, snapshot, last_applied, storage, pc, op, exclude,
                   threads, captured, merged, puts, raised, result>>

\* Snapshot._apply: the thread of a device runs hardware.apply_snapshot on
\* the device's entry of the held document.
ApplyWorker(d) ==
    /\ pc = "apply"
    /\ threads[d] = "started"
    /\ \E delivered \in [PVs(d) -> BOOLEAN] :
         LET a == ApplySnapshot(d, remote[d], warnings, puts,
                                snapshot[HardwareType][d], delivered)
         IN /\ remote' = [remote EXCEPT ![d] = a.remote]
            /\ warnings' = a.warnings
            /\ puts' = a.puts
            /\ threads' = [threads EXCEPT
                              ![d] = IF a.raised # None THEN "failed"
                                     ELSE "done"]
    /\ UNCHANGED <<last_value, buffer, samples, statVars, deviceVars, factoryVars, engineVars, pc, op,
                   exclude, idx, captured, merged, raised, result>>

\* The end of apply(): the threads are joined, then _applied = True and
\* _last_applied = datetime.now().
ApplyFinish(now) ==
    /\ applied' = TRUE
    /\ last_applied' = now

\* apply() joins its threads and returns.
ApplyJoin ==
    /\ pc = "apply"
    /\ idx > Len(DeviceOrder)
    /\ Joined(Started)
    /\ \E now \in 1..MaxTime : now >= last_applied /\ ApplyFinish(now)
    /\ pc' = "returned"
    /\ UNCHANGED <<envVars, snapshot, storage, op, callVars, warnings, puts,
                   raised, result>>

\* ------------------------------------------------- set, save, load, diff
\* set(snapshot).
Set(doc) ==
    /\ Begin("set")
    /\ IF SetRaises(doc) # None
       THEN /\ raised' = SetRaises(doc)
            /\ UNCHANGED <<snapshot, applied>>
       ELSE /\ raised' = None
            /\ SetAccepted(doc)
    /\ pc' = "returned"
    /\ UNCHANGED <<envVars, last_applied, storage, callVars, warnings, puts,
                   result>>

\* save(filename, comment): the held document, with the comment and the
\* creation time added at the top level, is written to the location.
Save(filename, comment) ==
    /\ Begin("save")
    /\ IF filename = Filename("", "")
       THEN /\ raised' = "ValueError"
            /\ result' = NoResult
            /\ UNCHANGED storage
       ELSE IF snapshot = NoSnapshot
       THEN \* deepcopy(None).update(...)
            /\ raised' = "AttributeError"
            /\ result' = NoResult
            /\ UNCHANGED storage
       ELSE IF DumpRaises(DictUpdate(snapshot, SaveFields(comment)))
       THEN \* the file is opened for writing, then the dump raises
            /\ raised' = "RepresenterError"
            /\ result' = NoResult
            /\ storage' = [storage EXCEPT ![Location(filename)] = EmptyFile]
       ELSE /\ raised' = None
            /\ result' = Location(filename)
            /\ storage' = [storage EXCEPT ![Location(filename)] =
                              DictUpdate(snapshot, SaveFields(comment))]
    /\ pc' = "returned"
    /\ UNCHANGED <<envVars, snapshot, applied, last_applied, callVars,
                   warnings, puts>>

\* Snapshot._load_file: the exception raised (None: none).
LoadFileRaises(filename) ==
    IF filename = Filename("", "") THEN "ValueError"
    ELSE IF storage[Location(filename)] = NoFile THEN "FileNotFoundError"
    ELSE None

\* load(filename): the file is read and handed to set().
Load(filename) ==
    /\ Begin("load")
    /\ IF LoadFileRaises(filename) # None
       THEN /\ raised' = LoadFileRaises(filename)
            /\ UNCHANGED <<snapshot, applied>>
       ELSE IF SetRaises(storage[Location(filename)]) # None
       THEN /\ raised' = SetRaises(storage[Location(filename)])
            /\ UNCHANGED <<snapshot, applied>>
       ELSE /\ raised' = None
            /\ SetAccepted(storage[Location(filename)])
    /\ pc' = "returned"
    /\ UNCHANGED <<envVars, last_applied, storage, callVars, warnings, puts,
                   result>>

\* diff(first_snapshot, second_snapshot).
DiffCall(first, second) ==
    /\ Begin("diff")
    /\ raised' = Diff(first, second).raised
    /\ result' = IF Diff(first, second).raised = None
                 THEN Diff(first, second).value ELSE NoResult
    /\ pc' = "returned"
    /\ UNCHANGED <<envVars, engineVars, callVars, warnings, puts>>

\* diff() between get() and a document at hand, in either order.
DiffWithHeld(doc) == DiffCall(snapshot, doc) \/ DiffCall(doc, snapshot)

\* ------------------------------------------- statistics of a device
\* What a statistics call leaves alone: the engine and the rest of the
\* control system.
besideStats == <<remote, last_value, buffer, samples, engineVars, pc,
                 callVars, warnings, puts, deviceVars, factoryVars>>
pointVars == <<pv_buffer, buffer_size, buffer_capacity, callback_index,
               is_buffering, callbacks, stats, received, undisturbed>>

\* The subscriptions of the collaborator that are open.
OpenSubscriptions == {i \in 1..Len(callbacks) : callbacks[i]}

\* PVA.add_callback: the subscription joins the list; the index returned
\* is its place in it, counted from 0.
AddCallback(cbs) == Append(cbs, TRUE)
\* A remove_callback that leaves the subscription open.
RemoveCallbackNothing(cbs, index) == cbs
\* PVA.remove_callback: the subscription at the index is closed.
RemoveCallback(cbs, index) == [cbs EXCEPT ![index + 1] = FALSE]

\* A start_buffering that does not look at the index it holds.
CallbackIndexIgnored(index) == TRUE
\* start_buffering, `if self._callback_index is None:`.
CallbackIndexIsNone(index) == index = <<>>

\* PVMap.check_name_in_statistics: the exception raised (None: none).
CheckNameInStatistics(n) ==
    IF n \notin Statistics(StatDevice) THEN "ValueError" ELSE None

\* A statistics call of the device, given the point name n.
StatCall(call, n) ==
    /\ pc = "idle"
    /\ op' = call
    /\ point' = n
    /\ UNCHANGED besideStats

\* The collaborator delivers a value: every open subscription calls
\* update_stats with it.
RECURSIVE Deliver(_, _, _, _)
Deliver(p, k, value, timestamp) ==
    IF k = 0 THEN p
    ELSE Deliver(StatisticalPVUpdateStats(p, value, timestamp), k - 1,
                 value, timestamp)
MonitorEvent(value) ==
    /\ StatCall("update_stats", "READI")
    /\ OpenSubscriptions # {}
    /\ Len(received) + Cardinality(OpenSubscriptions) <= MaxUpdates
    /\ LET p == Deliver([buffer |-> pv_buffer, stats |-> stats,
                         received |-> received],
                        Cardinality(OpenSubscriptions), value,
                        Len(received) + 1)
       IN /\ pv_buffer' = p.buffer
          /\ stats' = p.stats
          /\ received' = p.received
    /\ raised' = None
    /\ result' = NoResult
    /\ UNCHANGED <<buffer_size, buffer_capacity, callback_index, is_buffering,
                   callbacks, undisturbed>>

\* StatisticalPV.start_buffering.  self.buffer is a list made of the deque,
\* and it is that list that is cleared.
StatisticalPVStartBuffering ==
    IF CallbackIndexIsNone(callback_index)
    THEN /\ Len(callbacks) < MaxSubscriptions
         /\ callbacks' = AddCallback(callbacks)
         /\ callback_index' = <<Len(callbacks)>>
         /\ is_buffering' = TRUE
         /\ UNCHANGED <<pv_buffer, buffer_size, buffer_capacity, stats,
                        received, undisturbed>>
    ELSE UNCHANGED pointVars

\* Hardware.start_buffering(name), through PVMap.start_buffering.
HardwareStartBuffering(n) ==
    /\ StatCall("start_buffering", n)
    /\ IF CheckNameInStatistics(n) # None
       THEN /\ raised' = CheckNameInStatistics(n)
            /\ UNCHANGED pointVars
       ELSE /\ raised' = None
            /\ StatisticalPVStartBuffering
    /\ result' = NoResult

\* Hardware.stop_buffering(name), through PVMap.stop_buffering and
\* StatisticalPV.stop_buffering.  With no index held, remove_callback(None)
\* raises TypeError over PVA (a list subscripted by None) and does nothing
\* over CA.
HardwareStopBuffering(n) ==
    /\ StatCall("stop_buffering", n)
    /\ IF CheckNameInStatistics(n) # None
       THEN /\ raised' = CheckNameInStatistics(n)
            /\ UNCHANGED pointVars
       ELSE IF callback_index = <<>>
       THEN /\ raised' \in {"TypeError", None}
            /\ UNCHANGED pointVars
       ELSE /\ raised' = None
            /\ callbacks' = RemoveCallback(callbacks, callback_index[1])
            /\ callback_index' = <<>>
            /\ is_buffering' = FALSE
            /\ UNCHANGED <<pv_buffer, buffer_size, buffer_capacity, stats,
                           received, undisturbed>>
    /\ result' = NoResult

\* Hardware.clear_buffer(name), through PVMap.clear_buffer:
\* self._statistics[name]._buffer.clear().
HardwareClearBuffer(n) ==
    /\ StatCall("clear_buffer", n)
    /\ IF CheckNameInStatistics(n) # None
       THEN /\ raised' = CheckNameInStatistics(n)
            /\ UNCHANGED pointVars
       ELSE /\ raised' = None
            /\ pv_buffer' = [pv_buffer EXCEPT !.items = <<>>]
            /\ undisturbed' = FALSE
            /\ UNCHANGED <<buffer_size, buffer_capacity, callback_index,
                           is_buffering, callbacks, stats, received>>
    /\ result' = NoResult

\* Hardware.set_buffer_size(name, size), through PVMap.set_buffer_size and
\* the setter of StatisticalPV.buffer_size.
HardwareSetBufferSize(n, size) ==
    /\ StatCall("set_buffer_size", n)
    /\ IF CheckNameInStatistics(n) # None
       THEN /\ raised' = CheckNameInStatistics(n)
            /\ UNCHANGED pointVars
       ELSE /\ raised' = None
            /\ pv_buffer' = Deque(pv_buffer.items, size)
            /\ buffer_size' = size
            /\ undisturbed' = FALSE
            /\ UNCHANGED <<buffer_capacity, callback_index, is_buffering,
                           callbacks, stats, received>>
    /\ result' = NoResult

\* Hardware.is_buffer_full(name), through PVMap.is_buffer_full.
HardwareIsBufferFull(n) ==
    /\ StatCall("is_buffer_full", n)
    /\ IF CheckNameInStatistics(n) # None
       THEN /\ raised' = CheckNameInStatistics(n)
            /\ result' = NoResult
       ELSE /\ raised' = None
            /\ result' = [value |-> IsBufferFull(pv_buffer)]
    /\ UNCHANGED pointVars

\* Hardware.is_buffering(name): `names in self.statistics`.
HardwareIsBufferingCall(n) ==
    /\ StatCall("is_buffering", n)
    /\ raised' = None
    /\ result' = [value |-> HardwareIsBuffering(StatDevice, n)]
    /\ UNCHANGED pointVars

\* Hardware.get_statistics(name): self.statistics[names]; the point it
\* returns is read for its mean, stdev, median, mode, min and max.
HardwareGetStatistics(n) ==
    /\ StatCall("get_statistics", n)
    /\ IF n \notin Statistics(StatDevice)
       THEN /\ raised' = "KeyError"
            /\ result' = NoResult
       ELSE /\ raised' = None
            /\ result' = stats
    /\ UNCHANGED pointVars

\* The point of the device under its monitor, started, stopped, cleared
\* and resized by name.
StatsNext ==
    \/ \E value \in Readings : MonitorEvent(value)
    \/ HardwareStartBuffering("READI")
    \/ HardwareStopBuffering("READI")
    \/ HardwareClearBuffer("READI")
    \/ \E size \in 1..MaxCapacity : HardwareSetBufferSize("READI", size)

\* Every statistics call of the device, given a name it has a statistical
\* point for or a name it has none for, while the monitor delivers zeros.
NamesNext ==
    \/ MonitorEvent(0)
    \/ \E n \in PointNames : HardwareStartBuffering(n)
    \/ \E n \in PointNames : HardwareStopBuffering(n)
    \/ \E n \in PointNames : HardwareClearBuffer(n)
    \/ \E n \in PointNames : \E size \in 1..MaxCapacity :
          HardwareSetBufferSize(n, size)
    \/ \E n \in PointNames : HardwareIsBufferFull(n)
    \/ \E n \in PointNames : HardwareIsBufferingCall(n)
    \/ \E n \in PointNames : HardwareGetStatistics(n)

\* A point configured with any capacity, auto-buffering or not.
StatsInit ==
    /\ EngineInit
    /\ \E n \in 1..MaxCapacity : \E auto \in BOOLEAN :
          StatisticalPVInit(n, auto)
SpecStats == StatsInit /\ [][StatsNext]_vars
SpecStatNames == StatsInit /\ [][NamesNext]_vars

\* The setter of StatisticalPV.buffer_size while the monitor's thread
\* delivers a value: update_stats runs after the setter has copied the
\* window, list(self._buffer), and before it binds the deque made of the
\* copy to self._buffer.
SetBufferSizeDuringUpdate(size, value) ==
    /\ StatCall("set_buffer_size", "READI")
    /\ OpenSubscriptions # {}
    /\ Len(received) + Cardinality(OpenSubscriptions) <= MaxUpdates
    /\ \E p \in {Deliver([buffer |-> pv_buffer, stats |-> stats,
                          received |-> received],
                         Cardinality(OpenSubscriptions), value,
                         Len(received) + 1)} :
          /\ pv_buffer' = Deque(pv_buffer.items, size)
          /\ stats' = p.stats
          /\ received' = p.received
    /\ buffer_size' = size
    /\ undisturbed' = FALSE
    /\ raised' = None
    /\ result' = NoResult
    /\ UNCHANGED <<buffer_capacity, callback_index, is_buffering, callbacks>>

\* The point resized while its monitor delivers values, before, after and
\* during the resize.
ResizeNext ==
    \/ \E value \in Readings : MonitorEvent(value)
    \/ HardwareStartBuffering("READI")
    \/ HardwareStopBuffering("READI")
    \/ \E size \in 1..MaxCapacity : HardwareSetBufferSize("READI", size)
    \/ \E size \in 1..MaxCapacity : \E value \in Readings :
          SetBufferSizeDuringUpdate(size, value)
SpecResize == StatsInit /\ [][ResizeNext]_vars

\* ------------------------------------------- puts to control points
\* A device with a writable and a read-only control point of every variant.
PutDevice == "D5"
\* The values handed to put.
PutValues == {"1", "2", "1.5", "True", "ON", "abc", "[1, 2]", None}

\* pv.put(value) on control point h of the device.  The collaborator
\* completes the write it is forwarded, or times out and leaves the value.
PVPutCall(h, value) ==
    /\ pc = "idle"
    /\ op' = "put"
    /\ \E delivered \in BOOLEAN :
         LET p == PVPut(h, value)
         IN /\ remote' = IF p.forwarded # None /\ delivered
                         THEN [remote EXCEPT ![PutDevice][h] = p.forwarded]
                         ELSE remote
            /\ warnings' = Warn(EmptyBag,
                   Warning("FailedEPICSOperationWarning", PutDevice, h),
                   p.warned)
            /\ puts' = {PutCall(PutDevice, h, value, p.forwarded)}
            /\ raised' = p.raised
    /\ result' = NoResult
    /\ UNCHANGED <<last_value, buffer, samples, statVars, deviceVars, factoryVars, engineVars, pc,
                   callVars>>

PutsNext == \E h \in PVs(PutDevice) : \E value \in PutValues :
                PVPutCall(h, value)

\* The control system holds a value for every point of the device.
PutsInit ==
    /\ remote = [d \in {PutDevice} |-> [h \in PVs(d) |-> InitialValue(h)]]
    /\ last_value = [d \in {PutDevice} |-> None]
    /\ additional = [d \in {PutDevice} |-> EmptyDict]
    /\ EngineQuiet
    /\ StatisticalPVInit(BufferCapacity, TRUE)
SpecPuts == PutsInit /\ [][PutsNext]_vars

\* ------------------------------------------ reads of control points
\* What get() returned.
Returned(value) == [value |-> value]
\* isinstance(retrieved_value, type_) for the expected types of the variant
\* of point h; a bool is an int.
ValidType(h, r) ==
    CASE PVType(h) = "string" -> IsStr(r)
      [] PVType(h) = "waveform" -> IsList(r)
      [] OTHER -> IsInt(r) \/ IsFloat(r) \/ IsBool(r)
\* What PVSignal.get makes of an answer: None and a value of a type it does
\* not expect raise the same ValueError.
Usable(h, r) == IF r = None \/ ~ValidType(h, r) THEN None ELSE r
\* bool(value).
Bool(value) == IF value \in {None, "0", "False"} THEN "False" ELSE "True"

\* pv.get(), by the variant of point h: the value returned, the last-known
\* _value it leaves and the warnings it emits.  r1 and r2 are what the
\* collaborator answers.
PVGet(h, last, r1, r2) ==
    LET once == PVSignalGetOnce(Usable(h, r1))
        twice == PVSignalGet(Usable(h, r1), Usable(h, r2))
        g == IF PVType(h) \in {"waveform", "string"} THEN once ELSE twice
        sg == StatePVGet(last, Usable(h, r1), Usable(h, r2))
        kept == IF g.ok THEN g.value ELSE last
        warned == IF g.ok THEN 0 ELSE 1
    IN CASE PVType(h) = "state" ->
              [value |-> sg.state, last |-> sg.last, warned |-> sg.warned]
         [] PVType(h) = "binary" ->
              [value |-> Bool(g.value), last |-> kept, warned |-> warned]
         [] OTHER ->
              [value |-> g.value, last |-> kept, warned |-> warned]

\* The points read, one of each variant that a number or a string answers.
GetPoints == {"SETI", "RPOWER", "LOCK", "NAME"}
\* What the collaborator answers to a read: a number, a string, or None
\* when it times out or has no connection.
GetAnswers == {"0", "1", "abc", None}

\* pv.get() on control point h of the device.
PVGetCall(h, r1, r2) ==
    /\ pc = "idle"
    /\ op' = "get"
    /\ \E g \in {PVGet(h, last_value[PutDevice][h], r1, r2)} :
         /\ last_value' = [last_value EXCEPT ![PutDevice][h] = g.last]
         /\ warnings' = Warn(EmptyBag,
                Warning("FailedEPICSOperationWarning", PutDevice, h),
                g.warned)
         /\ result' = Returned(g.value)
    /\ puts' = {}
    /\ raised' = None
    /\ UNCHANGED <<remote, buffer, samples, statVars, deviceVars, factoryVars,
                   engineVars, pc, callVars>>

GetsNext == \E h \in GetPoints : \E r1, r2 \in GetAnswers :
                PVGetCall(h, r1, r2)

\* No point has been read yet.
GetsInit ==
    /\ remote = [d \in {PutDevice} |-> [h \in PVs(d) |-> InitialValue(h)]]
    /\ last_value = [d \in {PutDevice} |-> [h \in PVs(d) |-> None]]
    /\ additional = [d \in {PutDevice} |-> EmptyDict]
    /\ EngineQuiet
    /\ StatisticalPVInit(BufferCapacity, TRUE)
SpecGets == GetsInit /\ [][GetsNext]_vars

\* ------------------------------------------------ a device on its own
\* A device with a waveform, a read-only scalar, a scalar and a state point
\* that apply_snapshot sets, and a statistical point that create_snapshot
\* reads.
Device == "D4"
\* The keys handed to update_additional_information: a new name, the name
\* of a control point and the name of the device.
InformationKeys == {"note", "SETI", "D4"}
Information == "7"

\* An entry of the device, from the value of each point it lists.  The
\* points are listed in the order of the device's pv_record_map, as
\* create_snapshot writes them.
Entry(values) == [h \in DOMAIN values |-> [value |-> values[h]]]
\* The entries handed to apply_snapshot: every point; a waveform value that
\* is no list; a scalar value that is no number; a state that the
\* enumeration lacks.
DeviceEntries ==
    {Entry([WAVE |-> "[1, 2]", GETI |-> "1", SETI |-> "1", RPOWER |-> "ON",
            READI |-> "1"]),
     Entry([WAVE |-> "1.5", SETI |-> "2", RPOWER |-> "ON"]),
     Entry([SETI |-> "abc", RPOWER |-> "OFF", READI |-> "0"]),
     Entry([GETI |-> "1", RPOWER |-> "2"])}

\* A call of the device begins: the engine is left alone.
DeviceCall(name) ==
    /\ pc = "idle"
    /\ op' = name
    /\ UNCHANGED <<buffer, samples, engineVars, pc, callVars>>

\* Hardware.update_additional_information(key, value).
HardwareUpdateAdditionalInformation(key, value) ==
    /\ DeviceCall("update_additional_information")
    /\ additional' = [additional EXCEPT
                        ![Device] = DictUpdate(@, key :> value)]
    /\ warnings' = EmptyBag
    /\ puts' = {}
    /\ raised' = None
    /\ result' = NoResult
    /\ UNCHANGED <<remote, last_value, statVars, entry, factoryVars>>

\* What the collaborator answers to the reads of a capture: the value of
\* each point, None for the points that do not answer.
Reads(d, silent) ==
    [h \in PVs(d) |->
        IF h \in silent THEN None
        ELSE IF h \in Writable(d) THEN remote[d][h] ELSE Telemetry]

\* Hardware.create_snapshot(), while at most one point does not answer.
HardwareCreateSnapshot ==
    /\ DeviceCall("create_snapshot")
    /\ \E silent \in {{}} \cup {{h} : h \in PVs(Device)} :
       \E c \in {CreateSnapshot(Device, EmptyBag, last_value[Device],
                                 Reads(Device, silent), Reads(Device, silent),
                                 pv_buffer.items, additional[Device])} :
            /\ warnings' = c.warnings
            /\ last_value' = [last_value EXCEPT ![Device] = c.last]
            /\ raised' = c.raised
            /\ result' = IF c.raised = None THEN c.snapshot ELSE NoResult
    /\ puts' = {}
    /\ UNCHANGED <<remote, statVars, deviceVars, factoryVars>>

\* Hardware.apply_snapshot(entry), while the collaborator completes every
\* write or times out on one point.
HardwareApplySnapshot(given) ==
    /\ DeviceCall("apply_snapshot")
    /\ entry' = given
    /\ \E lost \in {{}} \cup {{h} : h \in Writable(Device)} :
       \E a \in {ApplySnapshot(Device, remote[Device], EmptyBag, {}, given,
                                [h \in PVs(Device) |-> h \notin lost])} :
            /\ remote' = [remote EXCEPT ![Device] = a.remote]
            /\ warnings' = a.warnings
            /\ puts' = a.puts
            /\ raised' = a.raised
    /\ result' = NoResult
    /\ UNCHANGED <<last_value, statVars, additional, factoryVars>>

\* apply_snapshot of the entry that create_snapshot has just returned.
Captured == op = "create_snapshot" /\ raised = None
HardwareApplyCaptured == Captured /\ HardwareApplySnapshot(result[Device])

\* The device captured between the calls that start and stop its
\* statistical point, the updates of its monitor, the additional information
\* it is handed and the changes of the control system.
DeviceNext ==
    \/ Len(received) < MaxSamples /\ MonitorEvent(0)
    \/ HardwareStartBuffering("READI")
    \/ HardwareStopBuffering("READI")
    \/ \E key \in InformationKeys :
          HardwareUpdateAdditionalInformation(key, Information)
    \/ HardwareCreateSnapshot
    \/ \E v \in Vals : ExternalChange(Device, "RPOWER", v)

\* The device captured and set: the entries it is handed and the entries it
\* has returned are applied to it.
ApplyNext ==
    \/ Len(received) < MaxSamples /\ MonitorEvent(0)
    \/ HardwareCreateSnapshot
    \/ \E given \in DeviceEntries : HardwareApplySnapshot(given)
    \/ HardwareApplyCaptured
    \/ \E v \in Vals : ExternalChange(Device, "RPOWER", v)

\* The device at construction, its statistical point auto-buffering or not.
DeviceInit ==
    /\ remote = [d \in {Device} |-> [h \in Writable(d) |-> InitialValue(h)]]
    /\ last_value = [d \in {Device} |-> None]
    /\ additional = [d \in {Device} |-> EmptyDict]
    /\ EngineQuiet
    /\ \E auto \in BOOLEAN : StatisticalPVInit(BufferCapacity, auto)
SpecDevice == DeviceInit /\ [][DeviceNext]_vars
SpecApply == DeviceInit /\ [][ApplyNext]_vars

\* ------------------------------------------- a capture and the monitor
\* The entry of a capture whose two reads of stats.buffer saw two windows:
\* the samples are those of the first, the timestamps those of the second.
TwoReads(captured_entry, second) ==
    [h \in DOMAIN captured_entry |->
        IF "timestamps" \in DOMAIN captured_entry[h]
        THEN [captured_entry[h] EXCEPT
                 !.timestamps = BufferTimestamps(second)]
        ELSE captured_entry[h]]

\* Hardware.create_snapshot() while the monitor's thread delivers a value:
\* update_stats runs between `array(stats.buffer)[::, 1]` and
\* `array(stats.buffer)[::, 0]`.
HardwareCreateSnapshotDuringUpdate(value) ==
    /\ DeviceCall("create_snapshot")
    /\ OpenSubscriptions # {}
    /\ Len(received) + Cardinality(OpenSubscriptions) <= MaxUpdates
    /\ \E c \in {CreateSnapshot(Device, EmptyBag, last_value[Device],
                                 Reads(Device, {}), Reads(Device, {}),
                                 pv_buffer.items, additional[Device])} :
       \E p \in {Deliver([buffer |-> pv_buffer, stats |-> stats,
                          received |-> received],
                         Cardinality(OpenSubscriptions), value,
                         Len(received) + 1)} :
            /\ warnings' = c.warnings
            /\ last_value' = [last_value EXCEPT ![Device] = c.last]
            /\ raised' = c.raised
            /\ result' = IF c.raised = None
                         THEN Device :> TwoReads(c.snapshot[Device],
                                                 p.buffer.items)
                         ELSE NoResult
            /\ pv_buffer' = p.buffer
            /\ stats' = p.stats
            /\ received' = p.received
    /\ puts' = {}
    /\ UNCHANGED <<remote, buffer_size, buffer_capacity, callback_index,
                   is_buffering, callbacks, undisturbed, point, deviceVars,
                   factoryVars>>

\* The device captured while its monitor delivers values, before, after and
\* during the capture.
RaceNext ==
    \/ \E v \in Readings : MonitorEvent(v)
    \/ HardwareStartBuffering("READI")
    \/ HardwareStopBuffering("READI")
    \/ HardwareCreateSnapshot
    \/ \E v \in Readings : HardwareCreateSnapshotDuringUpdate(v)
SpecRace == DeviceInit /\ [][RaceNext]_vars

\* ------------------------------------------------- documents compared
\* The values of the points in the documents handed to diff().
DiffValues(h) == IF h = "SETI" THEN {"0", "1", NaN} ELSE {"ON"}
\* The entries of those documents: each lists the scalar point, the state
\* point, both or none.
DiffEntries ==
    UNION {{Entry(values) :
               values \in {f \in [S -> {"0", "1", NaN, "ON"}] :
                              \A h \in S : f[h] \in DiffValues(h)}} :
           S \in SUBSET {"SETI", "RPOWER"}}
\* The documents: of the engine's type, with an entry for D1, for D2, for
\* both or for none.
DiffDocs ==
    {Document(HardwareType, inner) :
        inner \in UNION {[S -> DiffEntries] : S \in SUBSET {"D1", "D2"}}}

\* diff(a, a) of the document the engine holds.
DiffWithItself == DiffCall(snapshot, snapshot)

\* The engine handed documents, loading the file it finds and comparing
\* what it holds.
DiffNext ==
    \/ \E doc \in DiffDocs : Set(doc)
    \/ \E f \in Filenames : Load(f)
    \/ \E doc \in DiffDocs : DiffWithHeld(doc)
    \/ DiffWithItself
    \/ Return
SpecDiff == Init /\ [][DiffNext]_vars

\* ------------------------------------------------------ documents kept
\* The documents the engine is made to hold before it saves: with no
\* device, with one device, with two, of two types at once, and the one
\* update() holds after the capture of a device with a waveform point,
\* whose value is stored as WaveformPV.get returned it.
StoreDocs ==
    {Document(HardwareType, EmptyDict),
     Document(HardwareType, [d \in {"D2"} |-> EntryOf(d, "1")]),
     Document(HardwareType, [d \in {"D1", "D2"} |-> EntryOf(d, "0")]),
     Document(HardwareType, [d \in {"D1"} |-> EntryOf(d, "0")])
       @@ Document(OtherType, [d \in {"D1"} |-> EntryOf(d, "1")]),
     Document(HardwareType,
              [d \in {"D4"} |-> Entry([WAVE |-> NdArray, SETI |-> "0"])])}
\* The comments handed to save().
Comments == {"", "note"}

\* The engine handed documents, saving what it holds and loading it back.
StoreNext ==
    \/ \E doc \in StoreDocs : Set(doc)
    \/ \E f \in Filenames : \E c \in Comments : Save(f, c)
    \/ \E f \in Filenames : Load(f)
    \/ Return
SpecStore == Init /\ [][StoreNext]_vars

\* ------------------------------------------------- apply after update
\* apply() called on the document the last update() captured: no document
\* has been applied since.
ApplyCaptured(E) == ~applied /\ ApplyCall(E)
\* Somebody else changes a point while no captured document waits to be
\* applied.
QuietChange(d, h, v) ==
    (snapshot = NoSnapshot \/ applied) /\ ExternalChange(d, h, v)

\* The engine capturing the fleet and applying what it captured, on a
\* control system that changes between an apply() and the next update().
ReapplyNext ==
    \/ UpdateCall
    \/ UpdateStart
    \/ \E d \in Devices : UpdateCapture(d)
    \/ \E d \in Devices : UpdateMerge(d)
    \/ UpdateJoin
    \/ \E E \in Excludes : ApplyCaptured(E)
    \/ ApplySkip
    \/ ApplyNoSnapshot
    \/ ApplyStart
    \/ ApplyMissing
    \/ \E d \in Devices : ApplyWorker(d)
    \/ ApplyJoin
    \/ Return
    \/ \E d \in Devices : \E h \in Writable(d) : \E v \in Vals :
          QuietChange(d, h, v)
SpecReapply == Init /\ [][ReapplyNext]_vars

\* ------------------------------------------------------------ registry
\* Properties.name_alias of each device, as create_alias_list leaves it: the
\* configured string split at its commas; a device configured with no alias
\* has the empty string for its only alias.
Aliases(d) ==
    CASE d = "D1" -> <<"A1", "B1">>
      [] d = "D2" -> <<"A2">>
      [] d = "D3" -> <<"">>
AliasSet(d) == {Aliases(d)[i] : i \in 1..Len(Aliases(d))}

\* A device of the registry, as the caller of get_hardware receives it.
Component(d) == [name |-> d]
NoComponent == [None |-> None]

\* A lookup that knows the names of the registry and no alias.
NameExistsByName(name) ==
    IF name # "" /\ name \in Devices
    THEN [exists |-> TRUE, component |-> Component(name)]
    ELSE [exists |-> FALSE, component |-> NoComponent]
\* Factory._name_exists: the name among the keys of the registry, then the
\* first device, in the order of the registry, with the name among its
\* aliases; nothing for a name that is empty.
NameExists(name) ==
    LET found == {i \in 1..Len(DeviceOrder) :
                     name \in AliasSet(DeviceOrder[i])}
    IN IF name = "" THEN [exists |-> FALSE, component |-> NoComponent]
       ELSE IF name \in Devices
       THEN [exists |-> TRUE, component |-> Component(name)]
       ELSE IF found # {}
       THEN [exists |-> TRUE,
             component |->
                 Component(DeviceOrder[CHOOSE i \in found :
                                          \A j \in found : i <= j])]
       ELSE [exists |-> FALSE, component |-> NoComponent]

\* The argument of get_hardware: one name, or a list of names.
OneName(x) == [name |-> x]
NameList(xs) == [list |-> xs]
IsOneName(n) == "name" \in DOMAIN n

\* Factory.get_hardware for a list, from name i on: the dict built so far,
\* or the exception that left the loop.
RECURSIVE GetHardwareFrom(_, _, _)
GetHardwareFrom(xs, i, acc) ==
    IF i > Len(xs) THEN [raised |-> None, value |-> acc]
    ELSE IF ~NameExists(xs[i]).exists
    THEN [raised |-> "HardwareNameNotFound", value |-> NoResult]
    ELSE GetHardwareFrom(xs, i + 1,
             DictUpdate(acc, NameExists(xs[i]).component.name
                               :> NameExists(xs[i]).component))

\* Factory.get_hardware: the exception raised (None: none) and the value
\* returned.
GetHardware(n) ==
    IF IsOneName(n)
    THEN IF n.name = ""
         THEN [raised |-> "HardwareNameNotProvided", value |-> NoResult]
         ELSE IF ~NameExists(n.name).exists
         THEN [raised |-> "HardwareNameNotFound", value |-> NoResult]
         ELSE [raised |-> None, value |-> NameExists(n.name).component]
    ELSE IF n.list = <<>>
         THEN [raised |-> "HardwareNameNotProvided", value |-> NoResult]
         ELSE GetHardwareFrom(n.list, 1, EmptyDict)

\* The names asked for: the names of the registry, the aliases, a name that
\* nobody has, and the empty name; and the lists of them.
MaxNames == 2
Asked == {"D1", "D2", "D3", "A1", "B1", "A2", "X9", ""}
NameInputs ==
    {OneName(x) : x \in Asked}
    \cup {NameList(xs) : xs \in UNION {[1..k -> Asked] : k \in 0..MaxNames}}

\* get_hardware(names).
GetHardwareCall(n) ==
    /\ Begin("get_hardware")
    /\ names' = n
    /\ raised' = GetHardware(n).raised
    /\ result' = GetHardware(n).value
    /\ pc' = "returned"
    /\ UNCHANGED <<remote, last_value, buffer, samples, statVars, deviceVars,
                   engineVars, callVars, warnings, puts>>

RegistryNext ==
    \/ \E n \in NameInputs : GetHardwareCall(n)
    \/ Return
SpecRegistry == Init /\ [][RegistryNext]_vars

\* ------------------------------------------------------- specification
\* The calls of the engine and its threads.
Engine ==
    \/ UpdateCall
    \/ UpdateStart
    \/ \E d \in Devices : UpdateCapture(d)
    \/ \E d \in Devices : UpdateMerge(d)
    \/ UpdateJoin
    \/ \E E \in Excludes : ApplyCall(E)
    \/ ApplySkip
    \/ ApplyNoSnapshot
    \/ ApplyStart
    \/ ApplyMissing
    \/ \E d \in Devices : ApplyWorker(d)
    \/ ApplyJoin
    \/ \E doc \in InputDocs : Set(doc)
    \/ \E doc \in InputDocs : DiffWithHeld(doc)
    \/ Return

\* The control system around the engine.
Environment ==
    \/ \E d \in Devices : \E h \in Writable(d) : \E v \in Vals :
          ExternalChange(d, h, v)
    \/ \E d \in Devices : UpdateStats(d, Telemetry)

\* The engine on a control system that changes under it, loading the files
\* it finds.
Next == Engine \/ Environment \/ \E f \in Filenames : Load(f)
Spec == Init /\ [][Next]_vars

\* The scheduling of a batch: every get and every put returns within its
\* timeout, so the thread of each device runs to its end when it is given
\* the processor, and so does the loop of the caller.
Fairness ==
    /\ WF_vars(UpdateStart)
    /\ \A d \in Devices : WF_vars(UpdateCapture(d))
    /\ \A d \in Devices : WF_vars(UpdateMerge(d))
    /\ WF_vars(UpdateJoin)
    /\ WF_vars(ApplySkip)
    /\ WF_vars(ApplyNoSnapshot)
    /\ WF_vars(ApplyStart)
    /\ WF_vars(ApplyMissing)
    /\ \A d \in Devices : WF_vars(ApplyWorker(d))
    /\ WF_vars(ApplyJoin)
\* The batches of the engine on a control system that nobody else writes.
BatchNext ==
    \/ UpdateCall
    \/ UpdateStart
    \/ \E d \in Devices : UpdateCapture(d)
    \/ \E d \in Devices : UpdateMerge(d)
    \/ UpdateJoin
    \/ \E E \in Excludes : ApplyCall(E)
    \/ ApplySkip
    \/ ApplyNoSnapshot
    \/ ApplyStart
    \/ ApplyMissing
    \/ \E d \in Devices : ApplyWorker(d)
    \/ ApplyJoin
    \/ Return
FairSpec == Init /\ [][BatchNext]_vars /\ Fairness

\* ----------------------------------------------------------- properties
\* The devices apply(exclude) targets, the devices the held document has an
\* entry for, and the devices whose create_snapshot returned to its thread.
Targeted == Devices \ exclude
HeldEntries ==
    IF snapshot = NoSnapshot THEN {} ELSE DOMAIN snapshot[HardwareType]
Succeeded == {d \in Devices : captured[d] # EmptyDict}
Failed == {d \in Devices : threads[d] = "failed"}
NoWorkerRunning == \A d \in Devices : threads[d] \in {"none", "done", "failed"}
UpdateReturned == pc = "returned" /\ op = "update"
ApplyReturned == pc = "returned" /\ op = "apply"

\* C1: when apply(exclude) has returned, applied is true only if every
\* targeted device had an entry in the held document.
C1_AppliedOnlyIfAllFound ==
    (ApplyReturned /\ raised = None /\ applied) => Targeted \subseteq HeldEntries

\* C2: update() returns without an exception whatever its captures did, and
\* the document it leaves holds, under the tag alone, an entry for exactly
\* the devices whose capture succeeded.
C2_UpdateKeepsSuccessfulDevices ==
    UpdateReturned =>
        /\ raised = None
        /\ DOMAIN snapshot = {HardwareType}
        /\ DOMAIN snapshot[HardwareType] = Succeeded
C2_Witness ==
    /\ UpdateReturned
    /\ Failed # {}
    /\ Succeeded # {}
    /\ DOMAIN snapshot[HardwareType] = Succeeded

\* C3: however the threads of update() interleave, every capture that
\* returned has its entry in the merged dict, under the device's name and
\* equal to what the capture returned, from its merge on and in the document
\* update() sets.
C3_NoEntryLost ==
    /\ pc = "update" =>
         \A d \in Devices : threads[d] = "done" =>
             d \in DOMAIN merged /\ merged[d] = captured[d][d]
    /\ UpdateReturned =>
         \A d \in Succeeded :
             /\ d \in DOMAIN snapshot[HardwareType]
             /\ snapshot[HardwareType][d] = captured[d][d]
C3_Witness ==
    /\ UpdateReturned
    /\ Succeeded = Devices
    /\ \A d \in Devices : snapshot[HardwareType][d] = captured[d][d]

\* C4: update() changes the held document, apply() marks the engine applied,
\* and either of them returns, only in a step before which every thread the
\* call started has ended.
C4_JoinBarrier ==
    [][/\ (pc = "update" /\ snapshot' # snapshot) =>
              \A d \in Devices : Ended(threads[d])
       /\ (pc = "apply" /\ applied' /\ (~applied \/ last_applied' # last_applied)) =>
              \A d \in Targeted \cap HeldEntries : Ended(threads[d])
       /\ (pc \in {"update", "apply"} /\ pc' = "returned") =>
              NoWorkerRunning /\ NoWorkerRunning']_vars
C4_Witness ==
    /\ ApplyReturned
    /\ applied
    /\ Cardinality({d \in Devices : threads[d] = "done"}) >= 2

\* C5: when update() has returned, every device whose thread failed has a
\* warning recorded for it.
C5_FailedWorkerWarns ==
    UpdateReturned =>
        \A d \in Failed : \E w \in BagToSet(warnings) : w.device = d

\* C6: apply() on a held document that lacks the entry of a targeted device
\* raises nothing, records exactly one InvalidSnapshotSetting warning for
\* each such device, and issues the put of every settable point of every
\* other targeted device that has an entry.
C6_MissingDeviceWarnsOnce ==
    (ApplyReturned /\ snapshot # NoSnapshot /\ Targeted \ HeldEntries # {}) =>
        /\ raised = None
        /\ \A d \in Devices :
             CopiesIn(Warning("InvalidSnapshotSetting", d, None), warnings)
                = IF d \in Targeted \ HeldEntries THEN 1 ELSE 0
        /\ \A d \in Targeted \cap HeldEntries :
             \A h \in SnapshotSettables(d) \cap DOMAIN snapshot[HardwareType][d] :
                 \E p \in puts :
                     /\ p.device = d
                     /\ p.point = h
                     /\ p.value = snapshot[HardwareType][d][h].value
C6_Witness ==
    /\ ApplyReturned
    /\ raised = None
    /\ Targeted \ HeldEntries # {}
    /\ Targeted \cap HeldEntries # {}
    /\ \E p \in puts : p.device \in Targeted \cap HeldEntries

\* C7: during apply(exclude) no put goes to an excluded device, every put
\* goes to a settable point, and no remote value of an excluded device
\* changes.
C7_ExcludedUntouched ==
    /\ [](\A p \in puts :
             p.device \notin exclude /\ p.point \in SnapshotSettables(p.device))
    /\ [][pc = "apply" => \A d \in exclude : remote'[d] = remote[d]]_vars
C7_Witness ==
    /\ ApplyReturned
    /\ exclude = {"D2"}
    /\ {"D2", "D3"} \subseteq HeldEntries
    /\ \E p \in puts : p.device = "D1"

\* C8: when set(), load() or update() has returned without an exception,
\* applied is false.
C8_NewDocumentNotApplied ==
    (pc = "returned" /\ op \in {"set", "load", "update"} /\ raised = None) =>
        ~applied
C8_Witness ==
    /\ pc = "returned"
    /\ op = "load"
    /\ raised = None
    /\ last_applied > 0
    /\ ~applied

\* C9: set(doc), and diff() between the held document and doc, with a
\* non-empty doc that does not carry the engine's tag, raise
\* InvalidSnapshotSetting and leave the held document and applied as they
\* were.
C9_WrongTagIsInvalidSnapshotSetting ==
    [][\A doc \in InputDocs \ {EmptyDict} :
          HardwareType \notin DOMAIN doc =>
              /\ Set(doc) =>
                    /\ raised' = "InvalidSnapshotSetting"
                    /\ UNCHANGED <<snapshot, applied>>
              /\ (snapshot # NoSnapshot /\ DiffWithHeld(doc)) =>
                    /\ raised' = "InvalidSnapshotSetting"
                    /\ UNCHANGED <<snapshot, applied>>]_vars

\* C10: the top-level keys of a held document are the engine's tag and
\* nothing else.
C10_OnlyTheTag ==
    snapshot # NoSnapshot => DOMAIN snapshot = {HardwareType}

\* -------------------------------------- properties of the statistics
\* The four aggregates a point keeps.
AggregatesOf(st) == <<st.mean, st.stdev, st.median, st.mode>>
\* A step in which the monitor delivers a value.
Delivery == \E value \in Readings : MonitorEvent(value)

\* C11: a window of capacity n that was never resized nor cleared holds,
\* after m updates, the most recent min(m, n) of them, oldest first, each
\* with the time it arrived.
C11_WindowKeepsMostRecent ==
    undisturbed =>
        LET m == Len(received)
            kept == Min(m, buffer_capacity)
        IN /\ Len(pv_buffer.items) = kept
           /\ \A i \in 1..kept :
                  pv_buffer.items[i] = <<m - kept + i, received[m - kept + i]>>
C11_Witness ==
    /\ undisturbed
    /\ buffer_capacity >= 2
    /\ Len(received) > buffer_capacity
    /\ received[1] # received[Len(received)]
    /\ Len(pv_buffer.items) = buffer_capacity

\* C12: in every state is_buffer_full is true exactly when the window holds
\* as many samples as its current capacity, buffer_size.
C12_FullIffCountIsCapacity ==
    IsBufferFull(pv_buffer) <=> Len(pv_buffer.items) = buffer_size
C12_Witness ==
    /\ op = "set_buffer_size"
    /\ buffer_size > buffer_capacity
    /\ Len(pv_buffer.items) = buffer_capacity
    /\ ~IsBufferFull(pv_buffer)

\* C13: a resize to n of a window that holds m samples leaves the most
\* recent min(m, n) of them, in their order, in a window of capacity n.
C13_ResizeKeepsMostRecent ==
    [][\A size \in 1..MaxCapacity :
          HardwareSetBufferSize("READI", size) =>
              LET m == Len(pv_buffer.items)
                  kept == Min(m, size)
              IN /\ Len(pv_buffer'.items) = kept
                 /\ \A i \in 1..kept :
                        pv_buffer'.items[i] = pv_buffer.items[m - kept + i]
                 /\ pv_buffer'.maxlen = size
                 /\ buffer_size' = size]_vars
C13_Witness ==
    /\ op = "set_buffer_size"
    /\ buffer_size < buffer_capacity
    /\ Len(received) >= buffer_capacity
    /\ Len(pv_buffer.items) = buffer_size
    /\ pv_buffer.items[buffer_size] = <<Len(received), received[Len(received)]>>

\* C14: start_buffering on a point that is not buffering leaves the window
\* empty, one subscription open and the point buffering.
C14_StartClearsWindow ==
    [][(HardwareStartBuffering("READI") /\ ~is_buffering) =>
          /\ pv_buffer'.items = <<>>
          /\ Cardinality(OpenSubscriptions') = 1
          /\ is_buffering']_vars

\* C15: start_buffering on a point that is buffering changes neither the
\* window, the aggregates, the index held nor the subscriptions; at most one
\* subscription is ever open, and a value the monitor delivers reaches
\* update_stats once.
C15_StartOnActiveIsNoOp ==
    /\ [](Cardinality(OpenSubscriptions) = IF is_buffering THEN 1 ELSE 0)
    /\ [][(HardwareStartBuffering("READI") /\ is_buffering) =>
             UNCHANGED <<pv_buffer, stats, callback_index, callbacks,
                         is_buffering>>]_vars
    /\ [][Delivery => Len(received') = Len(received) + 1]_vars
C15_Witness ==
    /\ op = "start_buffering"
    /\ raised = None
    /\ is_buffering
    /\ Len(callbacks) = 1
    /\ pv_buffer.items # <<>>

\* C16: stop_buffering on a point that is buffering closes its subscription
\* and clears is_buffering, and leaves the window and the statistics as they
\* were; while the point is not buffering the window changes only by a clear
\* or a resize.
C16_StopKeepsWindow ==
    /\ [][(HardwareStopBuffering("READI") /\ is_buffering) =>
             /\ raised' = None
             /\ ~is_buffering'
             /\ OpenSubscriptions' = {}
             /\ UNCHANGED <<pv_buffer, stats>>]_vars
    /\ [][(~is_buffering /\ pv_buffer' # pv_buffer) =>
             op' \in {"clear_buffer", "set_buffer_size"}]_vars
C16_Witness ==
    /\ op = "stop_buffering"
    /\ raised = None
    /\ ~is_buffering
    /\ callbacks # <<>>
    /\ OpenSubscriptions = {}
    /\ Len(pv_buffer.items) >= 3
    /\ stats.mean # Unset

\* C17: an update that leaves at least 3 samples in the window leaves mean,
\* stdev, median and mode computed over exactly those samples; an update
\* that leaves fewer, and every other operation, leaves the four as they
\* were.
C17_AggregatesOverWindow ==
    [][IF Delivery /\ Len(pv_buffer'.items) >= 3
       THEN AggregatesOf(stats') =
                <<Mean(WindowValues(pv_buffer'.items)),
                  Stdev(WindowValues(pv_buffer'.items)),
                  Median(WindowValues(pv_buffer'.items)),
                  Mode(WindowValues(pv_buffer'.items))>>
       ELSE AggregatesOf(stats') = AggregatesOf(stats)]_vars
C17_Witness ==
    /\ op = "update_stats"
    /\ Len(pv_buffer.items) < 3
    /\ stats.mean # Unset
    /\ stats.mode # Unset

\* C18: once a value was delivered, max is a delivered value of the greatest
\* magnitude and min a delivered value of the least magnitude, among all the
\* values delivered since the point was created.
C18_ExtremesByMagnitude ==
    received # <<>> =>
        /\ \E i \in 1..Len(received) :
              /\ stats.max = Num(received[i])
              /\ \A k \in 1..Len(received) : Abs(received[k]) <= Abs(received[i])
        /\ \E j \in 1..Len(received) :
              /\ stats.min = Num(received[j])
              /\ \A k \in 1..Len(received) : Abs(received[j]) <= Abs(received[k])

\* C19: a statistics call of the device given a name that is none of its
\* statistical points raises a not-found error.
C19_UnknownNameNotFound ==
    (point # None /\ point \notin Statistics(StatDevice)) =>
        raised \in {"ValueError", "KeyError"}

\* C20: update() over a device whose statistical point has an empty window
\* has the capture of that device return its entry.
C20_EmptyWindowCaptures ==
    (UpdateReturned /\ buffer[StatDevice] = <<>>) => StatDevice \in Succeeded

\* ------------------------------------------ properties of the devices
\* The warnings of the category that a refused put emits, at a point.
PutWarnings(d, h) ==
    CopiesIn(Warning("FailedEPICSOperationWarning", d, h), warnings)
ReadOnlyUntouched ==
    \A h \in PVs(PutDevice) :
        ReadOnly(h) => remote'[PutDevice][h] = remote[PutDevice][h]

C22_RejectedPutWarns ==
    op = "put" =>
        /\ raised = None
        /\ \A p \in puts :
              p.forwarded = None => PutWarnings(PutDevice, p.point) >= 1

\* The points of the device that a capture reads.
CapturedPoints(d) == SnapshotGettables(d) \cup SnapshotSettables(d)
\* The puts that a call issued to a point.
PutsTo(ps, h) == {p \in ps : p.point = h}

\* C23: the entry that create_snapshot returns for a point carries `buffer`
\* and `timestamps` if and only if the point is a statistical point that is
\* buffering at the time of the capture.
C23_WindowOnlyWhileBuffering ==
    Captured =>
        \A h \in CapturedPoints(Device) \cap DOMAIN result[Device] :
            {"buffer", "timestamps"} \subseteq DOMAIN result[Device][h]
                <=> (h \in Statistics(Device) /\ is_buffering)

\* C24: is_buffering(name) of the device returns true if and only if the
\* named statistical point is buffering.
C24_IsBufferingTellsTheFlag ==
    (op = "is_buffering" /\ point \in Statistics(StatDevice)) =>
        result.value = is_buffering

\* C25: in the entry that create_snapshot returns, an additional-information
\* field whose key is the name of a captured point is skipped with a
\* warning, so the point keeps the value that was read; every other field
\* is added to the entry.
C25_InformationNeverOverwrites ==
    Captured =>
        \A k \in DOMAIN additional[Device] :
            IF k \in CapturedPoints(Device)
            THEN /\ result[Device][k].value # additional[Device][k]
                 /\ CopiesIn(Warning("InvalidSnapshotSetting", Device, k),
                             warnings) >= 1
            ELSE result[Device][k] = [value |-> additional[Device][k]]

\* The points that the last apply_snapshot was to set.
ToSet == DOMAIN entry \cap SnapshotSettables(Device)
\* No put and no warning for a point that is not to be set, and no put with
\* a value other than the stored one.
OnlyToSet ==
    /\ \A p \in puts : p.point \in ToSet /\ p.value = entry[p.point].value
    /\ \A w \in BagToSet(warnings) : w.point \in ToSet
\* Exactly one put for every point that is to be set.
EveryToSet == \A h \in ToSet : Cardinality(PutsTo(puts, h)) = 1

FailedPuts == {p \in puts : p.forwarded = None}
\* C27: when one put of apply_snapshot(entry) fails, every other point that
\* is in the entry and settable still receives its put.
C27_FailedPutDoesNotAbort ==
    (op = "apply_snapshot" /\ FailedPuts # {}) =>
        \A h \in ToSet : PutsTo(puts, h) # {}

\* C28: create_snapshot records a state point under the name of the
\* enumeration member, never under its integer; when apply_snapshot of that
\* entry puts to the point, what the point forwards to the collaborator is
\* the integer the enumeration gives that name, and apply_snapshot does put
\* to it unless it raised.
C28_StateRoundTrip ==
    /\ [](Captured => \A h \in PVs(Device) \cap DOMAIN result[Device] :
             PVType(h) = "state" =>
                 /\ result[Device][h].value \in StateNames
                 /\ result[Device][h].value \notin Ints)
    /\ [][HardwareApplyCaptured =>
             \A h \in PVs(Device) \cap DOMAIN result[Device] :
                 PVType(h) = "state" =>
                     /\ \A p \in PutsTo(puts', h) :
                           /\ p.value = result[Device][h].value
                           /\ p.forwarded = States[result[Device][h].value]
                     /\ raised' = None => PutsTo(puts', h) # {}]_vars
C28_Witness ==
    /\ op = "apply_snapshot"
    /\ raised = None
    /\ {"RPOWER", "READI"} \subseteq DOMAIN entry
    /\ "buffer" \in DOMAIN entry["READI"]
    /\ entry["RPOWER"].value = "ON"
    /\ \E p \in puts :
          p.point = "RPOWER" /\ p.value = "ON" /\ p.forwarded = "1"
    /\ remote[Device]["RPOWER"] = "1"

\* ------------------------------------------ properties of the documents
\* The points of entry e1 that have a different value in entry e2.
Differing(e1, e2) ==
    {p \in DOMAIN e1 : p \notin DOMAIN e2 \/ e1[p].value # e2[p].value}
\* The Diff Result of documents a and b: a device of both appears if some
\* point differs, with the differing points; a device of a alone appears
\* with its entry; a device of b alone does not appear.
Reference(a, b) ==
    LET s1 == a[HardwareType]
        s2 == b[HardwareType]
        appears == {d \in DOMAIN s1 :
                       d \notin DOMAIN s2 \/ Differing(s1[d], s2[d]) # {}}
    IN [d \in appears |->
          IF d \notin DOMAIN s2 THEN s1[d]
          ELSE [p \in Differing(s1[d], s2[d]) |->
                   [current |-> s1[d][p].value,
                    diff |-> IF p \in DOMAIN s2[d] THEN s2[d][p].value
                             ELSE None]]]
DiffReturns(a, b) ==
    (DiffCall(a, b) /\ IsSnapshotCorrectType(a) /\ IsSnapshotCorrectType(b))
        => (raised' = None /\ result' = Reference(a, b))

\* C29: for documents a and b of the engine's type, diff(a, b) returns the
\* reference result: the devices of both with a differing point, mapped to
\* their differing points as {current, diff}; the devices of a alone with
\* their entry; no device of b alone.
C29_DiffIsTheReference ==
    [][\A b \in DiffDocs :
          DiffReturns(snapshot, b) /\ DiffReturns(b, snapshot)]_vars

\* C30: diff(a, a) returns the empty Diff Result for every document a of
\* the engine's type.
C30_DiffWithItselfIsEmpty ==
    [][(DiffWithItself /\ IsSnapshotCorrectType(snapshot)) =>
          (raised' = None /\ result' = EmptyDict)]_vars

\* The document without the top-level fields that save() adds.
Ignoring(doc) ==
    [k \in DOMAIN doc \ DOMAIN SaveFields("") |-> doc[k]]
NamedFiles == Filenames \ {Filename("", "")}

\* C31: for every held document and every filename, save(name) writes the
\* document to the location the name resolves to, and load(name) of a file
\* that is there leaves the engine holding what the file holds: save then
\* load gives the engine a document equal to the saved one once the
\* top-level `comment` and `created` are ignored.
C31_SaveLoadRoundTrip ==
    [][\A f \in NamedFiles :
          /\ \A c \in Comments :
                (Save(f, c) /\ snapshot # NoSnapshot) =>
                    /\ raised' = None
                    /\ result' = Location(f)
                    /\ Ignoring(storage'[Location(f)]) = Ignoring(snapshot)
          /\ (Load(f) /\ storage[Location(f)] # NoFile) =>
                    /\ raised' = None
                    /\ snapshot' = storage[Location(f)]]_vars

\* C32: apply() directly after update(), with no set() or load() and no
\* external change in between, leaves every settable point at the value it
\* had: no worker of the apply changes a value on the control system.
C32_ReapplyChangesNothing ==
    [][\A d \in Devices : ApplyWorker(d) => remote' = remote]_vars

\* C33: under the fair scheduling of the threads, a fleet-wide update() or
\* apply() returns, and every thread it started comes to its end, with its
\* work done or with a failure.
C33_BatchReturns ==
    /\ (pc \in {"update", "apply"}) ~> (pc = "returned")
    /\ \A d \in Devices :
          (threads[d] = "started") ~> (threads[d] \in {"done", "failed"})
\* An update() has returned with one thread done and another failed.
C33_Witness ==
    /\ pc = "returned"
    /\ op = "update"
    /\ \E d \in Devices : threads[d] = "failed"
    /\ \E d \in Devices : threads[d] = "done"

\* ------------------------------------------- properties of the registry
\* The devices that carry x as their name or as one of their aliases.
Owners(x) == {d \in Devices : x = d \/ x \in AliasSet(d)}
GetHardwareReturned == pc = "returned" /\ op = "get_hardware"
\* A list with a name that no device carries is refused whole.
ListRefused ==
    (/\ GetHardwareReturned
     /\ ~IsOneName(names)
     /\ \E i \in 1..Len(names.list) : Owners(names.list[i]) = {})
        => (raised = "HardwareNameNotFound" /\ result = NoResult)

\* C34: get_hardware(x) returns the device that carries x as its name or as
\* one of its aliases and fails with HardwareNameNotFound when no device
\* does; for a list with a name that no device carries it fails with
\* HardwareNameNotFound and returns nothing.
C34_ResolvesNamesAndAliases ==
    /\ (GetHardwareReturned /\ IsOneName(names)) =>
          IF Owners(names.name) = {}
          THEN raised = "HardwareNameNotFound"
          ELSE raised = None /\ result.name \in Owners(names.name)
    /\ ListRefused

\* C34, for names that are not empty: get_hardware(x) returns the device
\* that carries x as its name or as one of its aliases and fails with
\* HardwareNameNotFound when no device does; the empty name fails with
\* HardwareNameNotProvided, also when it is a device's alias; a list with a
\* name that no device carries, or with the empty name, fails with
\* HardwareNameNotFound and returns nothing.
C34_ResolvesNamesGiven ==
    /\ (GetHardwareReturned /\ IsOneName(names)) =>
          IF names.name = ""
          THEN raised = "HardwareNameNotProvided" /\ result = NoResult
          ELSE IF Owners(names.name) = {}
          THEN raised = "HardwareNameNotFound" /\ result = NoResult
          ELSE /\ raised = None
               /\ Owners(names.name) = {result.name}
    /\ ListRefused
    /\ (/\ GetHardwareReturned
        /\ ~IsOneName(names)
        /\ \E i \in 1..Len(names.list) : names.list[i] = "")
          => (raised = "HardwareNameNotFound" /\ result = NoResult)
\* get_hardware has returned a device for its second alias.
C34_Witness ==
    /\ GetHardwareReturned
    /\ names = OneName("B1")
    /\ raised = None
    /\ result = Component("D1")

\* C35: in every captured entry that carries a buffer, `buffer` and
\* `timestamps` have the same length and the i-th timestamp is the one that
\* was delivered with the i-th sample, also when an update arrives while
\* the capture runs.
C35_BufferAndTimestampsParallel ==
    Captured =>
        \A h \in DOMAIN result[Device] :
            "buffer" \in DOMAIN result[Device][h] =>
                LET e == result[Device][h]
                IN /\ Len(e.buffer) = Len(e.timestamps)
                   /\ \A i \in 1..Len(e.buffer) :
                         received[e.timestamps[i]] = e.buffer[i]

\* ------------------------------------------- properties of the reads
\* The read of point h fails: an answer is None or of a type that the
\* variant does not expect.
GetFails(h, r1, r2) ==
    \/ Usable(h, r1) = None
    \/ PVType(h) \notin {"waveform", "string"} /\ Usable(h, r2) = None

\* C36: a get() whose read fails or answers a value of the wrong type
\* emits a warning, leaves the last-known value as it was and returns None.
C36_FailedGetReturnsNone ==
    [][\A h \in GetPoints : \A r1, r2 \in GetAnswers :
          (PVGetCall(h, r1, r2) /\ GetFails(h, r1, r2)) =>
              /\ warnings' # EmptyBag
              /\ last_value' = last_value
              /\ result' = Returned(None)]_vars

\* ------------------------------------------ properties of the engine
\* C37: in every reachable state of the engine, applied = true implies
\* that a document is held: apply() on an engine that holds no document
\* never leaves applied = true.
C37_AppliedImpliesHeld == applied => snapshot # NoSnapshot

\* C38: diff is total on valid input: for two documents of the engine's
\* type diff(a, b) returns a Diff Result and raises nothing, also when a
\* device of both documents has a point in a that b's entry lacks.
C38_DiffIsTotal ==
    [][\A b \in DiffDocs :
          (/\ DiffCall(snapshot, b)
           /\ IsSnapshotCorrectType(snapshot)
           /\ IsSnapshotCorrectType(b))
              => (raised' = None /\ result' # NoResult)]_vars

\* C39: over any sequence of start and stop calls on a statistical point, a
\* stop deregisters with the handle that the last registration returned,
\* and that handle is still open; a stop on a point that is not buffering
\* deregisters nothing and changes nothing: it returns and leaves the point
\* and its subscriptions as they were.
C39_StopDeregistersWhatStartRegistered ==
    [][HardwareStopBuffering("READI") =>
          IF is_buffering
          THEN /\ callback_index # <<>>
               /\ callback_index[1] + 1 \in OpenSubscriptions
               /\ raised' = None
          ELSE /\ raised' = None
               /\ UNCHANGED pointVars]_vars

\* C40: no sample is lost to a race between a resize and an update: when
\* update(v, t) is delivered while the setter of buffer_size rebuilds the
\* window with a capacity that has room for it, the window holds (t, v)
\* once both have completed.
C40_ResizeLosesNoSample ==
    [][\A size \in 1..MaxCapacity : \A value \in Readings :
          (/\ SetBufferSizeDuringUpdate(size, value)
           /\ size > Len(pv_buffer.items))
              => \E i \in 1..Len(pv_buffer'.items) :
                    pv_buffer'.items[i] = <<Len(received) + 1, value>>]_vars
====
